---- MODULE Spec2Model ----
(***************************************************************************)
(* Model of the quokka HTTP dispatcher: the route trie and ServeHTTP       *)
(* (router.go), middleware composition (middleware.go), the token-bucket   *)
(* rate limiter and the buffering gzip response writer.                    *)
(*                                                                         *)
(* Strings that the code takes apart are sequences of tokens: a path is a  *)
(* sequence whose elements are the separator "/" or one whole non-empty    *)
(* path segment.                                                           *)
(***************************************************************************)
EXTENDS Integers, Sequences, FiniteSets, TLC

\* ------------------------------------------------------------------ bounds
MaxRoutes == 2
MaxMw == 3
MaxGroups == 1
MaxGroupMw == 2
MaxClock == 2
MaxReqs == 4
NumProcs == 2

\* The configuration of the rate limiter.  One clock tick is one second;
\* tokens are counted in units of 1/TokenScale token, and RatePerTick units
\* are refilled per second (cfg.Rate = RatePerTick / TokenScale).
Burst == 1
TokenScale == 2
RatePerTick == 1
StaleAfter == 1

\* cfg.MinLength of the Gzip middleware, and the size of one response.
MinLength == 2
MaxBody == 4
MaxOps == 4

\* The response-writing calls one handler makes on its Context.
MaxCalls == 2

\* ------------------------------------------------------- program constants
StatusMovedPermanently == 301
StatusNotFound == 404
StatusMethodNotAllowed == 405
StatusTooManyRequests == 429
StatusOK == 200
StatusFound == 302
StatusInternalServerError == 500
StatusNoContent == 204
StatusNotModified == 304
MethodGet == "GET"
MethodHead == "HEAD"

\* ------------------------------------------------------------------ inputs
SEP == "/"
NIL == 0
PANIC == -1

\* Segments that begin with ":" and the text after the colon.
ColonSegs == {":id", ":x"}

\* Patterns handed to Handle, methods handed to Handle, tracing middleware
\* handed to Use, and the requests handed to ServeHTTP.
Patterns ==
  { <<SEP, "a", SEP, "b">>,
    <<SEP, "a", SEP, "*">>,
    <<SEP, "a", SEP, ":id">>,
    <<SEP, "a", SEP, "b", SEP, "c">>,
    <<SEP, "a", SEP, ":id", SEP, "*">> }

RegMethods == {"GET", "post"}

\* The sentinel causes handed to Router.ErrorHandler.
ErrNotFound == "ErrNotFound"
ErrMethodNotAllowed == "ErrMethodNotAllowed"

\* Patterns, handlers and per-route middleware of the registrations that may
\* fail: the empty pattern, an unrooted one, and parameter names that agree or
\* conflict at one trie position.
RegPatterns ==
  { <<>>,
    <<"a", SEP, "b">>,
    <<SEP, "a", SEP, "b">>,
    <<SEP, "a", SEP, ":id">>,
    <<SEP, "a", SEP, ":x">>,
    <<SEP, "a", SEP, "*">>,
    <<SEP, "a", SEP, ":id", SEP, "b">>,
    <<SEP, "c", SEP, "b", SEP, ":x">> }

RouteMws == { <<>>, <<"R">>, <<"S">> }

RegRequests ==
  [method : {"GET"},
   target : {<<SEP, "a", SEP, "b">>, <<SEP, "a", SEP, "7">>, <<SEP, "a", SEP, "7", SEP, "b">>},
   query : {<<>>}]

\* Methods, patterns and requests of the specification of method resolution
\* and of the trailing-slash redirect.
HeadMethods == {"GET", "post", "HEAD"}

HeadPatterns == { <<SEP, "a", SEP, "b">>, <<SEP, "a", SEP, ":id">> }

HeadRequests ==
  [method : {"HEAD", "GET"},
   target : {<<SEP, "a", SEP, "b">>, <<SEP, "a", SEP, "7">>, <<SEP, "a">>, <<SEP>>,
             <<SEP, "a", SEP, "b", SEP>>, <<SEP, "a", SEP, "b", SEP, SEP>>},
   query : {<<>>, <<"q=1">>}]

\* Prefixes, middleware and patterns of the route groups.
GroupPrefixes == { <<SEP, "a">>, <<"a", SEP>> }
GroupMws == {"H"}
GroupPatterns == { <<SEP, "b">> }
GroupRouteMws == { <<>>, <<"R">> }
RouterMws == {"A", "B"}

GroupRequests ==
  [method : {"GET"},
   target : {<<SEP, "a", SEP, "b">>, <<SEP, "a">>},
   query : {<<>>}]

Middlewares == {"A", "B", "C"}

ReqMethods == {"GET", "POST", "HEAD"}

ReqTargets ==
  { <<SEP>>,
    <<SEP, "a">>,
    <<SEP, "a", SEP, "b">>,
    <<SEP, "a", SEP, "c">>,
    <<SEP, "a", SEP, "b", SEP, "c">>,
    <<SEP, "a", SEP, "*">>,
    <<SEP, "a", SEP, ":id">>,
    <<SEP, "a", SEP, "b", SEP>>,
    <<SEP, SEP, "a", SEP, SEP, "b">>,
    <<SEP, "\\evil.com", SEP>>,
    <<SEP, "%5Cevil.com", SEP>>,
    <<SEP, SEP, "evil.com", SEP>> }

Requests ==
  [method : ReqMethods, target : ReqTargets, query : {<<>>}]
  \cup { [method |-> "GET", target |-> <<SEP, "a", SEP, "b", SEP>>, query |-> <<"q=1">>] }

\* The smaller inputs of the specification that varies the middleware list.
ChainPatterns == { <<SEP, "a", SEP, "b">> }

ChainRequests ==
  [method : {"GET", "POST"},
   target : {<<SEP, "a", SEP, "b">>, <<SEP, "a">>, <<SEP, "a", SEP, "b", SEP>>},
   query : {<<>>}]

\* The inputs of the specification that interleaves requests with writers:
\* the goroutines that run ServeHTTP, the Use calls, the route, the requests.
Flights == {"r1", "r2"}

UseBatches == { <<"A", "B">>, <<"C">> }

ConcPatterns == { <<SEP, "a", SEP, "b">> }

ConcRequests ==
  [method : {"GET"},
   target : {<<SEP, "a", SEP, "b">>, <<SEP, "a", SEP>>},
   query : {<<>>}]

VARIABLES
  nodes,                  \* the trie: nodes[1] is Router.root
  mw,                     \* Router.mw
  RedirectTrailingSlash,  \* Router.RedirectTrailingSlash
  ErrorHandler,           \* Router.ErrorHandler is set
  notFound,               \* Router.notFound: "default" or "custom"
  methodNA,               \* Router.methodNA: "default" or "custom"
  groups,                 \* the Group values created so far: [prefix, mw], and the history regs
  mu,                     \* Router.mu
  routes,                 \* history: the registrations that returned normally
  last                    \* history: the last call and what it did

VARIABLES
  clock,                  \* time.Now(), in seconds
  clients,                \* the map of buckets, key -> [tokens, lastSeen]
  rl,                     \* per request goroutine: [pc, key, now]
  rlmu,                   \* the limiter's mutex: 0, or the goroutine that holds it
  rlast,                  \* history: the last answer of the rate limiter
  hist                    \* history per key: admitted, denied, instants, swept,
                          \* and the denials since the key was last admitted

VARIABLES
  gzw,                    \* the gzipResponseWriter of the response
  sink,                   \* the underlying http.ResponseWriter, as a recorder
  gzh                     \* history: the calls the handler has made

VARIABLES
  ctx,                    \* the Context of the request: [wrote, status]
  ctxh                    \* history: the Context calls made, the state after the first

VARIABLES
  MaxBodySize,            \* Router.MaxBodySize, 0 for no limit
  inflight,               \* the requests inside ServeHTTP: [pc, req, mw, maxBodySize, out, nroutes]
  useEnds                 \* history: the lengths of Router.mw after each call of Use

concVars == <<MaxBodySize, inflight, useEnds>>
routerVars ==
  <<nodes, mw, RedirectTrailingSlash, ErrorHandler, notFound, methodNA, groups, mu, routes, last,
    concVars>>
rateVars == <<clock, clients, rl, rlmu, rlast, hist>>
ctxVars == <<ctx, ctxh>>
gzipVars == <<gzw, sink, gzh, ctxVars>>
vars == <<routerVars, concVars, rateVars, gzipVars>>

\* ------------------------------------------------------------ string helpers
HasColonPrefix(seg) == seg \in ColonSegs

StripColon(seg) ==
  CASE seg = ":id" -> "id"
    [] seg = ":x" -> "x"
    [] OTHER -> seg

ToUpper(m) ==
  CASE m = "get" -> "GET"
    [] m = "post" -> "POST"
    [] m = "head" -> "HEAD"
    [] OTHER -> m

\* url.PathUnescape as net/http applies it when it fills req.URL.Path.
PathUnescape(tok) ==
  CASE tok = "%5Cevil.com" -> "\\evil.com"
    [] OTHER -> tok

URLPath(target) == [i \in 1..Len(target) |-> PathUnescape(target[i])]

RECURSIVE Join(_)
Join(parts) ==
  IF parts = <<>> THEN <<>>
  ELSE IF Len(parts) = 1 THEN <<parts[1]>>
  ELSE <<parts[1], SEP>> \o Join(Tail(parts))

RECURSIVE TrimRight(_)
TrimRight(p) ==
  IF p # <<>> /\ p[Len(p)] = SEP THEN TrimRight(SubSeq(p, 1, Len(p) - 1)) ELSE p

HasSuffixSep(p) == p # <<>> /\ p[Len(p)] = SEP

\* As splitPath, but keeping the empty segment between two adjacent separators.
RECURSIVE splitPath_keepEmpty(_)
splitPath_keepEmpty(p) ==
  IF p = <<>> THEN <<>>
  ELSE IF p[1] # SEP THEN <<p[1]>> \o splitPath_keepEmpty(Tail(p))
  ELSE IF Len(p) > 1 /\ p[2] = SEP THEN <<"">> \o splitPath_keepEmpty(Tail(p))
  ELSE splitPath_keepEmpty(Tail(p))

splitPath(p) == SelectSeq(p, LAMBDA t : t # SEP)

Min(S) == CHOOSE x \in S : \A y \in S : x <= y

\* strings.Trim(prefix, "/")
RECURSIVE TrimLeft(_)
TrimLeft(p) ==
  IF p # <<>> /\ p[1] = SEP THEN TrimLeft(Tail(p)) ELSE p

Trim(p) == TrimLeft(TrimRight(p))

\* path.Clean on the segments of a rooted path: "." is dropped and ".."
\* removes the segment before it.
RECURSIVE cleanSegs(_, _)
cleanSegs(done, rest) ==
  IF rest = <<>> THEN done
  ELSE IF Head(rest) = "." THEN cleanSegs(done, Tail(rest))
  ELSE IF Head(rest) = ".."
       THEN cleanSegs(IF done = <<>> THEN done ELSE SubSeq(done, 1, Len(done) - 1), Tail(rest))
       ELSE cleanSegs(Append(done, Head(rest)), Tail(rest))

\* path.Join("/", prefix, p)
pathJoin(prefix, p) ==
  <<SEP>> \o Join(cleanSegs(<<>>, splitPath(prefix \o <<SEP>> \o p)))

\* r.mu.Lock() and the deferred r.mu.Unlock()
Lock(m) == "locked"

\* As Unlock, but the lock is kept.
Unlock_kept(m) == m

Unlock(m) == "unlocked"

\* ---------------------------------------------------------------- the trie
NewNode(seg) ==
  [segment |-> seg, param |-> HasColonPrefix(seg), wildcard |-> (seg = "*"),
   children |-> <<>>, handlers |-> <<>>]

RootNode ==
  [segment |-> "", param |-> FALSE, wildcard |-> FALSE,
   children |-> <<>>, handlers |-> <<>>]

\* As matchChild, but never reusing a child that exists.
matchChild_alwaysNew(ns, n, seg) ==
  LET ch == ns[n].children
  IN IF HasColonPrefix(seg) /\ \E i \in 1..Len(ch) : ns[ch[i]].param /\ ns[ch[i]].segment # seg
     THEN PANIC
     ELSE NIL

\* As matchChild, but without the test for a conflicting parameter name.
matchChild_noConflict(ns, n, seg) ==
  LET ch == ns[n].children
      hits == {i \in 1..Len(ch) :
                 \/ ns[ch[i]].segment = seg
                 \/ (seg = "*" /\ ns[ch[i]].wildcard)}
  IN IF hits # {} THEN ch[Min(hits)] ELSE NIL

matchChild(ns, n, seg) ==
  LET ch == ns[n].children
      hits == {i \in 1..Len(ch) :
                 \/ ns[ch[i]].segment = seg
                 \/ (seg = "*" /\ ns[ch[i]].wildcard)}
  IN IF hits # {} THEN ch[Min(hits)]
     ELSE IF HasColonPrefix(seg) /\ \E i \in 1..Len(ch) : ns[ch[i]].param
          THEN PANIC
          ELSE NIL

\* The message of the panic of matchChild: the new segment and the segment of
\* the first parameter child.
conflictMessage(ns, n, seg) ==
  LET ch == ns[n].children
      k == Min({i \in 1..Len(ch) : ns[ch[i]].param})
  IN <<"quokka: conflicting param name ", seg, ", existing ", ns[ch[k]].segment>>

\* The loop of handleWithPrefix over the segments of the pattern.
RECURSIVE walk(_, _, _)
walk(ns, n, parts) ==
  IF parts = <<>> THEN [nodes |-> ns, n |-> n, panic |-> FALSE, msg |-> <<>>]
  ELSE LET seg == Head(parts)
           child == matchChild(ns, n, seg)
       IN IF child = PANIC
          THEN [nodes |-> ns, n |-> n, panic |-> TRUE, msg |-> conflictMessage(ns, n, seg)]
          ELSE IF child = NIL
               THEN LET id == Len(ns) + 1
                        ns2 == Append([ns EXCEPT ![n].children = Append(@, id)],
                                      NewNode(seg))
                    IN walk(ns2, id, Tail(parts))
               ELSE walk(ns, child, Tail(parts))

\* chain(mw, h) for handlers that are known by the events they produce when
\* they run: a middleware emits its before-event, calls next, and emits its
\* after-event.
Wrap(m, run) == <<(<<m, "before">>)>> \o run \o <<(<<m, "after">>)>>

RECURSIVE chainFrom(_, _, _)
chainFrom(ms, i, run) ==
  IF i >= 1 THEN chainFrom(ms, i - 1, Wrap(ms[i], run)) ELSE run

Reverse(ms) == [i \in 1..Len(ms) |-> ms[Len(ms) + 1 - i]]

\* As chain, but composing from the first middleware to the last.
chain_forward(ms, run) == chainFrom(Reverse(ms), Len(ms), run)

chain(ms, run) == chainFrom(ms, Len(ms), run)

\* As PutHandler, but a binding that exists is kept.
PutHandler_keepFirst(hs, m, h) == IF m \in DOMAIN hs THEN hs ELSE (m :> h) @@ hs

\* n.handlers[method] = h
PutHandler(hs, m, h) == (m :> h) @@ hs

\* handleWithPrefix on the trie ns with the lock in state m: the trie and the
\* lock as the call leaves them, whether it panicked and with what message,
\* and the segments of the registered path.
handleWithPrefix(ns, m, prefix, method, p, h, routeMw) ==
  IF h = NIL
  THEN [nodes |-> ns, mu |-> m, panic |-> TRUE, msg |-> <<"quokka: nil handler">>, parts |-> <<>>]
  ELSE LET m1 == Lock(m) IN
    IF p = <<>> \/ p[1] # SEP
    THEN [nodes |-> ns, mu |-> Unlock(m1), panic |-> TRUE,
          msg |-> <<"path must start with /">>, parts |-> <<>>]
    ELSE LET full == IF prefix # <<>> THEN pathJoin(prefix, p) ELSE p
             parts == splitPath(full)
             w == walk(ns, 1, parts)
         IN IF w.panic
            THEN [nodes |-> w.nodes, mu |-> Unlock(m1), panic |-> TRUE, msg |-> w.msg,
                  parts |-> parts]
            ELSE [nodes |-> [w.nodes EXCEPT ![w.n].handlers =
                               PutHandler(@, ToUpper(method),
                                          [id |-> h, run |-> chain(routeMw, <<(<<"handler", "run">>)>>)])],
                  mu |-> Unlock(m1), panic |-> FALSE, msg |-> <<>>, parts |-> parts]

\* ------------------------------------------------------------------- find
\* One pass of the inner loop of find over the children of n, from child k on.
\* st = [next, params, i]; i is the 0-based index the outer loop holds.
SetParam(params, name, val) == (name :> val) @@ params

RECURSIVE scanChildren(_, _, _, _, _, _)
scanChildren(ns, chs, k, p, parts, st) ==
  IF k > Len(chs) THEN st
  ELSE LET ch == ns[chs[k]] IN
    IF ch.segment = p THEN [st EXCEPT !.next = chs[k]]
    ELSE LET st1 == IF ch.param
                    THEN [st EXCEPT !.next = chs[k],
                                    !.params = SetParam(@, StripColon(ch.segment), <<p>>)]
                    ELSE st
             st2 == IF ch.wildcard
                    THEN [st1 EXCEPT !.next = chs[k],
                                     !.params = SetParam(@, "*", Join(SubSeq(parts, st1.i + 1, Len(parts)))),
                                     !.i = Len(parts) - 1]
                    ELSE st1
         IN scanChildren(ns, chs, k + 1, p, parts, st2)

RECURSIVE findLoop(_, _, _, _, _)
findLoop(ns, parts, i, n, params) ==
  IF i >= Len(parts) THEN [n |-> n, params |-> params]
  ELSE LET st == scanChildren(ns, ns[n].children, 1, parts[i + 1], parts,
                              [next |-> NIL, params |-> params, i |-> i])
       IN IF st.next = NIL THEN [n |-> NIL, params |-> <<>>]
          ELSE findLoop(ns, parts, st.i + 1, st.next, st.params)

find(ns, pathStr) == findLoop(ns, splitPath(pathStr), 0, 1, <<>>)

\* ---------------------------------------------------------------- ServeHTTP
\* errorHandler(status, err): the hook when one is set, else the default
\* handlers installed by New.
\* The handler is named by its kind: "hook" is the closure around
\* r.ErrorHandler, which hands it (status, err); "notFound" and "methodNA" are
\* the handlers installed by New, "customNotFound" and "customMethodNA" the
\* ones installed with NotFound and MethodNotAllowed.
errorHandler_ignoresHook(eh, nf, mna, status, err) ==
  IF status = StatusMethodNotAllowed
  THEN [kind |-> IF mna = "custom" THEN "customMethodNA" ELSE "methodNA",
        status |-> status, err |-> ""]
  ELSE [kind |-> IF nf = "custom" THEN "customNotFound" ELSE "notFound",
        status |-> status, err |-> ""]

errorHandler(eh, nf, mna, status, err) ==
  IF eh THEN [kind |-> "hook", status |-> status, err |-> err]
  ELSE IF status = StatusMethodNotAllowed
       THEN [kind |-> IF mna = "custom" THEN "customMethodNA" ELSE "methodNA",
             status |-> status, err |-> ""]
       ELSE [kind |-> IF nf = "custom" THEN "customNotFound" ELSE "notFound",
             status |-> status, err |-> ""]

NoOutcome ==
  [kind |-> "none", status |-> 0, location |-> <<>>, handler |-> NIL,
   params |-> <<>>, trace |-> <<>>, err |-> "", msg |-> <<>>]

\* As ServeHTTP, but without the fallback of HEAD to the GET handler.
ServeHTTP_noAutoHead(ns, gmw, rts, eh, nf, mna, req) ==
  LET urlPath == req.path IN
  IF rts /\ Len(urlPath) > 1 /\ HasSuffixSep(urlPath)
  THEN LET t0 == TrimRight(urlPath)
           target == IF req.query # <<>> THEN t0 \o <<"?">> \o req.query ELSE t0
       IN [NoOutcome EXCEPT !.kind = "redirect", !.status = StatusMovedPermanently,
                            !.location = target]
  ELSE
    LET f == find(ns, urlPath)
        m == ToUpper(req.method)
    IN IF f.n = NIL \/ DOMAIN ns[f.n].handlers = {}
       THEN LET e == errorHandler(eh, nf, mna, StatusNotFound, ErrNotFound)
            IN [NoOutcome EXCEPT !.kind = e.kind, !.status = e.status, !.err = e.err,
                                 !.trace = chain(gmw, <<(<<e.kind, "run">>)>>)]
       ELSE IF m \in DOMAIN ns[f.n].handlers
       THEN LET h == ns[f.n].handlers[m]
            IN [NoOutcome EXCEPT !.kind = "handler", !.handler = h.id,
                                 !.params = f.params, !.trace = chain(gmw, h.run)]
       ELSE LET e == errorHandler(eh, nf, mna, StatusMethodNotAllowed, ErrMethodNotAllowed)
            IN [NoOutcome EXCEPT !.kind = e.kind, !.status = e.status, !.err = e.err,
                                 !.trace = chain(gmw, <<(<<e.kind, "run">>)>>)]

\* As ServeHTTP, but the redirect target is the trimmed path alone.
ServeHTTP_dropsQuery(ns, gmw, rts, eh, nf, mna, req) ==
  LET urlPath == req.path IN
  IF rts /\ Len(urlPath) > 1 /\ HasSuffixSep(urlPath)
  THEN LET t0 == TrimRight(urlPath)
           target == t0
       IN [NoOutcome EXCEPT !.kind = "redirect", !.status = StatusMovedPermanently,
                            !.location = target]
  ELSE
    LET f == find(ns, urlPath)
        m == ToUpper(req.method)
    IN IF f.n = NIL \/ DOMAIN ns[f.n].handlers = {}
       THEN LET e == errorHandler(eh, nf, mna, StatusNotFound, ErrNotFound)
            IN [NoOutcome EXCEPT !.kind = e.kind, !.status = e.status, !.err = e.err,
                                 !.trace = chain(gmw, <<(<<e.kind, "run">>)>>)]
       ELSE IF m \in DOMAIN ns[f.n].handlers
       THEN LET h == ns[f.n].handlers[m]
            IN [NoOutcome EXCEPT !.kind = "handler", !.handler = h.id,
                                 !.params = f.params, !.trace = chain(gmw, h.run)]
       ELSE IF req.method = MethodHead /\ MethodGet \in DOMAIN ns[f.n].handlers
       THEN LET h == ns[f.n].handlers[MethodGet]
            IN [NoOutcome EXCEPT !.kind = "handler", !.handler = h.id,
                                 !.params = f.params, !.trace = chain(gmw, h.run)]
       ELSE LET e == errorHandler(eh, nf, mna, StatusMethodNotAllowed, ErrMethodNotAllowed)
            IN [NoOutcome EXCEPT !.kind = e.kind, !.status = e.status, !.err = e.err,
                                 !.trace = chain(gmw, <<(<<e.kind, "run">>)>>)]

\* As redirectTrace, but with the redirect answered inside the chain.
redirectTrace_chained(gmw) == chain(gmw, <<(<<"redirect", "run">>)>>)

\* What of the chain runs for a request answered by http.Redirect: nothing,
\* the redirect is written before chain(mw, h) is built.
redirectTrace(gmw) == <<>>

ServeHTTP(ns, gmw, rts, eh, nf, mna, req) ==
  LET urlPath == req.path IN
  IF rts /\ Len(urlPath) > 1 /\ HasSuffixSep(urlPath)
  THEN LET t0 == TrimRight(urlPath)
           target == IF req.query # <<>> THEN t0 \o <<"?">> \o req.query ELSE t0
       IN [NoOutcome EXCEPT !.kind = "redirect", !.status = StatusMovedPermanently,
                            !.location = target,
                            !.trace = redirectTrace(gmw)]
  ELSE
    LET f == find(ns, urlPath)
        m == ToUpper(req.method)
    IN IF f.n = NIL \/ DOMAIN ns[f.n].handlers = {}
       THEN LET e == errorHandler(eh, nf, mna, StatusNotFound, ErrNotFound)
            IN [NoOutcome EXCEPT !.kind = e.kind, !.status = e.status, !.err = e.err,
                                 !.trace = chain(gmw, <<(<<e.kind, "run">>)>>)]
       ELSE IF m \in DOMAIN ns[f.n].handlers
       THEN LET h == ns[f.n].handlers[m]
            IN [NoOutcome EXCEPT !.kind = "handler", !.handler = h.id,
                                 !.params = f.params, !.trace = chain(gmw, h.run)]
       ELSE IF req.method = MethodHead /\ MethodGet \in DOMAIN ns[f.n].handlers
       THEN LET h == ns[f.n].handlers[MethodGet]
            IN [NoOutcome EXCEPT !.kind = "handler", !.handler = h.id,
                                 !.params = f.params, !.trace = chain(gmw, h.run)]
       ELSE LET e == errorHandler(eh, nf, mna, StatusMethodNotAllowed, ErrMethodNotAllowed)
            IN [NoOutcome EXCEPT !.kind = e.kind, !.status = e.status, !.err = e.err,
                                 !.trace = chain(gmw, <<(<<e.kind, "run">>)>>)]

\* ------------------------------------------------------------------ actions
\* A slot of ServeHTTP that no request occupies.
NoFlight == [pc |-> "idle", req |-> [method |-> "", path |-> <<>>, query |-> <<>>],
             mw |-> <<>>, maxBodySize |-> 0, out |-> NoOutcome, nroutes |-> 0]

NoCall == [op |-> "none", req |-> [method |-> "", path |-> <<>>, query |-> <<>>],
           h |-> NIL, out |-> NoOutcome]

InitRouter ==
  /\ nodes = <<RootNode>>
  /\ mw = <<>>
  /\ RedirectTrailingSlash = FALSE
  /\ ErrorHandler = FALSE
  /\ notFound = "default"
  /\ methodNA = "default"
  /\ groups = <<>>
  /\ mu = "unlocked"
  /\ routes = <<>>
  /\ last = NoCall
  /\ MaxBodySize = 0
  /\ inflight = [q \in Flights |-> NoFlight]
  /\ useEnds = {0}

\* Router.Use(ms...)
UseAll(ms) ==
  /\ mu = "unlocked"
  /\ Len(mw) + Len(ms) <= MaxMw
  /\ mw' = mw \o ms
  /\ mu' = Unlock(Lock(mu))
  /\ useEnds' = useEnds \cup {Len(mw')}
  /\ last' = NoCall
  /\ UNCHANGED <<nodes, RedirectTrailingSlash, ErrorHandler, notFound, methodNA, groups,
                 routes, MaxBodySize, inflight, rateVars, gzipVars>>

\* Router.Use(m)
Use(m) == UseAll(<<m>>)

\* As fullMW, but with the route's own middleware outside the group's.
fullMW_routeFirst(groupMw, routeMw) == routeMw \o groupMw

\* fullMW := append([]Middleware{}, g.mw...); fullMW = append(fullMW, mw...)
fullMW(groupMw, routeMw) == groupMw \o routeMw

\* A call of handleWithPrefix and what it leaves behind: the trie, the lock,
\* the registration in the history when the call returned, and the call with
\* its panic message when it did not.
Register(prefix, method, p, h, groupMw, routeMw) ==
  LET r == handleWithPrefix(nodes, mu, prefix, method, p, h, fullMW(groupMw, routeMw))
  IN /\ nodes' = r.nodes
     /\ mu' = r.mu
     /\ routes' = IF r.panic THEN routes
                  ELSE Append(routes, [method |-> ToUpper(method), parts |-> r.parts,
                                       id |-> h, gmw |-> groupMw, own |-> routeMw])
     /\ last' = [op |-> "handle",
                 req |-> [method |-> method, path |-> p, query |-> <<>>],
                 h |-> h,
                 out |-> [NoOutcome EXCEPT !.kind = IF r.panic THEN "panic" ELSE "registered",
                                           !.msg = r.msg,
                                           !.handler = IF r.panic THEN NIL ELSE h]]

\* Router.Handle(method, p, h, mw...): h is nil, or a fresh handler named by
\* the number of the registration.
Handle(method, p, nilHandler, routeMw) ==
  /\ mu = "unlocked"
  /\ Len(routes) < MaxRoutes
  /\ Register(<<>>, method, p, IF nilHandler THEN NIL ELSE Len(routes) + 1, <<>>, routeMw)
  /\ UNCHANGED <<mw, RedirectTrailingSlash, ErrorHandler, notFound, methodNA, groups,
                 concVars, rateVars, gzipVars>>

\* Router.Group(prefix, mw...)
Group(prefix, ms) ==
  /\ Len(groups) < MaxGroups
  /\ groups' = Append(groups, [prefix |-> Trim(prefix), mw |-> ms, regs |-> <<>>])
  /\ last' = NoCall
  /\ UNCHANGED <<nodes, mw, RedirectTrailingSlash, ErrorHandler, notFound, methodNA, mu,
                 routes, concVars, rateVars, gzipVars>>

\* Group.Use(m)
GroupUse(g, m) ==
  /\ g \in 1..Len(groups)
  /\ Len(groups[g].mw) < MaxGroupMw
  /\ groups' = [groups EXCEPT ![g].mw = Append(@, m)]
  /\ last' = NoCall
  /\ UNCHANGED <<nodes, mw, RedirectTrailingSlash, ErrorHandler, notFound, methodNA, mu,
                 routes, concVars, rateVars, gzipVars>>

\* Group.Handle(method, p, h, mw...)
GroupHandle(g, method, p, routeMw) ==
  /\ g \in 1..Len(groups)
  /\ mu = "unlocked"
  /\ Len(routes) < MaxRoutes
  /\ Register(groups[g].prefix, method, p, Len(routes) + 1, groups[g].mw, routeMw)
  /\ groups' = IF routes' = routes THEN groups
               ELSE [groups EXCEPT ![g].regs =
                       Append(@, [id |-> Len(routes'), nmw |-> Len(mw),
                                  ngmw |-> Len(groups[g].mw)])]
  /\ UNCHANGED <<mw, RedirectTrailingSlash, ErrorHandler, notFound, methodNA,
                 concVars, rateVars, gzipVars>>

\* r.RedirectTrailingSlash = true
SetRedirectTrailingSlash ==
  /\ ~RedirectTrailingSlash
  /\ RedirectTrailingSlash' = TRUE
  /\ last' = NoCall
  /\ UNCHANGED <<nodes, mw, ErrorHandler, notFound, methodNA, groups, mu, routes,
                 concVars, rateVars, gzipVars>>

\* r.ErrorHandler = func(...)
SetErrorHandler ==
  /\ ~ErrorHandler
  /\ ErrorHandler' = TRUE
  /\ last' = NoCall
  /\ UNCHANGED <<nodes, mw, RedirectTrailingSlash, notFound, methodNA, groups, mu, routes,
                 concVars, rateVars, gzipVars>>

\* Router.NotFound(h)
NotFound ==
  /\ mu = "unlocked"
  /\ notFound = "default"
  /\ notFound' = "custom"
  /\ mu' = Unlock(Lock(mu))
  /\ last' = NoCall
  /\ UNCHANGED <<nodes, mw, RedirectTrailingSlash, ErrorHandler, methodNA, groups, routes,
                 concVars, rateVars, gzipVars>>

\* Router.MethodNotAllowed(h)
MethodNotAllowed ==
  /\ mu = "unlocked"
  /\ methodNA = "default"
  /\ methodNA' = "custom"
  /\ mu' = Unlock(Lock(mu))
  /\ last' = NoCall
  /\ UNCHANGED <<nodes, mw, RedirectTrailingSlash, ErrorHandler, notFound, groups, routes,
                 concVars, rateVars, gzipVars>>

\* The registrations made through groups: [g, id, nmw, ngmw], the group, the
\* handler, and the lengths of Router.mw and of the group's list at that time.
GroupRegs ==
  UNION {{[g |-> g, id |-> groups[g].regs[i].id, nmw |-> groups[g].regs[i].nmw,
           ngmw |-> groups[g].regs[i].ngmw] : i \in 1..Len(groups[g].regs)} :
         g \in 1..Len(groups)}

\* As Serve, but a route registered through a group runs the middleware the
\* group holds when the request is served.
Serve_groupMwAtRequest(r) ==
  /\ mu = "unlocked"
  /\ LET req == [method |-> r.method, path |-> URLPath(r.target), query |-> r.query]
         out == ServeHTTP(nodes, mw, RedirectTrailingSlash, ErrorHandler,
                          notFound, methodNA, req)
         es == {e \in GroupRegs : out.kind = "handler" /\ e.id = out.handler}
     IN last' = [op |-> "serve", req |-> req, h |-> NIL,
                 out |-> IF es = {} THEN out
                         ELSE LET e == CHOOSE x \in es : TRUE
                              IN [out EXCEPT !.trace =
                                    chain(mw \o groups[e.g].mw \o routes[e.id].own,
                                          <<(<<"handler", "run">>)>>)]]
  /\ UNCHANGED <<nodes, mw, RedirectTrailingSlash, ErrorHandler, notFound, methodNA, groups,
                 mu, routes, concVars, rateVars, gzipVars>>

\* Router.ServeHTTP(w, req)
Serve(r) ==
  /\ mu = "unlocked"
  /\ LET req == [method |-> r.method, path |-> URLPath(r.target), query |-> r.query]
     IN last' = [op |-> "serve", req |-> req, h |-> NIL,
                 out |-> ServeHTTP(nodes, mw, RedirectTrailingSlash, ErrorHandler,
                                   notFound, methodNA, req)]
  /\ UNCHANGED <<nodes, mw, RedirectTrailingSlash, ErrorHandler, notFound, methodNA, groups,
                 mu, routes, concVars, rateVars, gzipVars>>

\* r.MaxBodySize = 16
SetMaxBodySize ==
  /\ MaxBodySize = 0
  /\ MaxBodySize' = 16
  /\ last' = NoCall
  /\ UNCHANGED <<nodes, mw, RedirectTrailingSlash, ErrorHandler, notFound, methodNA, groups,
                 mu, routes, inflight, useEnds, rateVars, gzipVars>>

\* sync.RWMutex: RLock succeeds unless a writer holds the lock.
CanRLock(m) == m \in {"unlocked", "rlocked"}

RLock(m) == "rlocked"

\* The requests that hold the read lock.
Readers == {q \in Flights : inflight[q].pc = "rlocked"}

\* As RUnlock, but the read lock is kept while the chain runs.
RUnlock_afterChain(q) == "rlocked"

\* RUnlock by q: the lock is free once the last reader has left.
RUnlock(q) == IF Readers \ {q} = {} THEN "unlocked" ELSE "rlocked"

\* As chainMw, but reading Router.mw when the chain is built.
chainMw_live(snap, cur) == cur

\* The middleware list that chain receives: the copy taken under the read lock.
chainMw(snap, cur) == snap

\* ServeHTTP, up to r.mu.RLock()
ServeRLock(q, r) ==
  /\ inflight[q].pc = "idle"
  /\ CanRLock(mu)
  /\ mu' = RLock(mu)
  /\ inflight' = [inflight EXCEPT ![q] =
       [NoFlight EXCEPT !.pc = "rlocked",
                        !.req = [method |-> r.method, path |-> URLPath(r.target),
                                 query |-> r.query]]]
  /\ last' = NoCall
  /\ UNCHANGED <<nodes, mw, RedirectTrailingSlash, ErrorHandler, notFound, methodNA, groups,
                 routes, MaxBodySize, useEnds, rateVars, gzipVars>>

\* ServeHTTP, from the read of RedirectTrailingSlash to r.mu.RUnlock()
ServeLookup(q) ==
  /\ inflight[q].pc = "rlocked"
  /\ inflight' = [inflight EXCEPT ![q] =
       [@ EXCEPT !.pc = "unlocked",
                 !.out = ServeHTTP(nodes, <<>>, RedirectTrailingSlash, ErrorHandler,
                                   notFound, methodNA, inflight[q].req),
                 !.maxBodySize = MaxBodySize,
                 !.mw = mw,
                 !.nroutes = Len(routes)]]
  /\ mu' = RUnlock(q)
  /\ last' = NoCall
  /\ UNCHANGED <<nodes, mw, RedirectTrailingSlash, ErrorHandler, notFound, methodNA, groups,
                 routes, MaxBodySize, useEnds, rateVars, gzipVars>>

\* ServeHTTP, after r.mu.RUnlock(): http.Redirect, or chain(mw, h)(c)
ServeRun(q) ==
  /\ inflight[q].pc = "unlocked"
  /\ LET f == inflight[q]
         out == IF f.out.kind = "redirect" THEN f.out
                ELSE [f.out EXCEPT !.trace = chain(chainMw(f.mw, mw), f.out.trace)]
     IN last' = [op |-> "serve", req |-> f.req, h |-> NIL, out |-> out,
                 maxBodySize |-> f.maxBodySize, nroutes |-> f.nroutes, nmw |-> Len(f.mw)]
  /\ inflight' = [inflight EXCEPT ![q] = NoFlight]
  /\ UNCHANGED <<nodes, mw, RedirectTrailingSlash, ErrorHandler, notFound, methodNA, groups,
                 mu, routes, MaxBodySize, useEnds, rateVars, gzipVars>>

\* Requests in flight while the router is being configured.
NextConc ==
  \/ \E ms \in UseBatches : (\A i \in 1..Len(mw) : mw[i] # ms[1]) /\ UseAll(ms)
  \/ \E p \in ConcPatterns : Handle("GET", p, FALSE, <<>>)
  \/ SetRedirectTrailingSlash
  \/ SetMaxBodySize
  \/ NotFound
  \/ \E q \in Flights, r \in ConcRequests : ServeRLock(q, r)
  \/ \E q \in Flights : ServeLookup(q)
  \/ \E q \in Flights : ServeRun(q)

NextRouter ==
  \/ \E method \in RegMethods, p \in Patterns : Handle(method, p, FALSE, <<>>)
  \/ SetRedirectTrailingSlash
  \/ \E r \in Requests : Serve(r)

NextChain ==
  \/ \E m \in Middlewares : Use(m)
  \/ \E p \in ChainPatterns : Handle("GET", p, FALSE, <<>>)
  \/ SetErrorHandler
  \/ SetRedirectTrailingSlash
  \/ NotFound
  \/ MethodNotAllowed
  \/ \E r \in ChainRequests : Serve(r)

\* Method resolution and the trailing-slash redirect.
NextHead ==
  \/ \E method \in HeadMethods, p \in HeadPatterns : Handle(method, p, FALSE, <<>>)
  \/ SetRedirectTrailingSlash
  \/ \E r \in HeadRequests : Serve(r)

\* Registrations that may fail, and re-registrations.
NextReg ==
  \/ \E p \in RegPatterns, nilHandler \in BOOLEAN, routeMw \in RouteMws :
        Handle("GET", p, nilHandler, routeMw)
  \/ \E r \in RegRequests : Serve(r)

\* Routes registered through groups.
NextGroup ==
  \/ \E m \in RouterMws : (\A i \in 1..Len(mw) : mw[i] # m) /\ Use(m)
  \/ \E prefix \in GroupPrefixes : Group(prefix, <<"G">>)
  \/ \E g \in 1..MaxGroups, m \in GroupMws : GroupUse(g, m)
  \/ \E g \in 1..MaxGroups, p \in GroupPatterns, routeMw \in GroupRouteMws :
        GroupHandle(g, "GET", p, routeMw)
  \/ \E r \in GroupRequests : Serve(r)

\* ==================================================================
\* RateLimit
\* ==================================================================
Keys == {"k1", "k2"}
Procs == 1..NumProcs

\* ErrorResponse{Error: "rate limit exceeded"}
RateLimitExceeded == <<"error", "rate limit exceeded">>

NoAnswer ==
  [key |-> "", now |-> 0, status |-> 0, retryAfter |-> 0, body |-> <<>>, next |-> FALSE,
   before |-> 0, tokens |-> 0, denials |-> {}]

InitRate ==
  /\ clock = 0
  /\ clients = <<>>
  /\ rl = [p \in Procs |-> [pc |-> "idle", key |-> "", now |-> 0]]
  /\ rlmu = 0
  /\ rlast = NoAnswer
  /\ hist = [k \in Keys |-> [admitted |-> 0, denied |-> 0, instants |-> {}, swept |-> FALSE,
                             denials |-> {}]]

CeilDiv(a, b) == IF a <= 0 THEN -((-a) \div b) ELSE (a + b - 1) \div b

\* As Refill, but only whole tokens are kept.
Refill_wholeTokens(b, now) ==
  LET t == b.tokens + (now - b.lastSeen) * RatePerTick
      w == (t \div TokenScale) * TokenScale
  IN [tokens |-> IF w > Burst * TokenScale THEN Burst * TokenScale ELSE w,
      lastSeen |-> now]

\* b.tokens += elapsed * cfg.Rate, capped at cfg.Burst; b.lastSeen = now
Refill(b, now) ==
  LET t == b.tokens + (now - b.lastSeen) * RatePerTick
  IN [tokens |-> IF t > Burst * TokenScale THEN Burst * TokenScale ELSE t,
      lastSeen |-> now]

\* As Exhausted, but refusing only a bucket in debt.
Exhausted_belowZero(b) == b.tokens < 0

\* b.tokens < 1
Exhausted(b) == b.tokens < TokenScale

\* As Allow, but every key uses whichever bucket the map holds.
Allow_sharedBucket(cs, key, now) ==
  LET b0 == IF DOMAIN cs # {} THEN cs[CHOOSE j \in DOMAIN cs : TRUE]
            ELSE [tokens |-> Burst * TokenScale, lastSeen |-> now]
      b1 == Refill(b0, now)
  IN IF Exhausted(b1)
     THEN [bucket |-> b1, admitted |-> FALSE,
           retryAfter |-> CeilDiv(TokenScale - b1.tokens, RatePerTick)]
     ELSE [bucket |-> [b1 EXCEPT !.tokens = @ - TokenScale], admitted |-> TRUE,
           retryAfter |-> 0]

\* The critical section of the request path on the bucket map cs for
\* (key, now): the bucket after it, and whether the request is admitted.
Allow(cs, key, now) ==
  LET b0 == IF key \in DOMAIN cs THEN cs[key]
            ELSE [tokens |-> Burst * TokenScale, lastSeen |-> now]
      b1 == Refill(b0, now)
  IN IF Exhausted(b1)
     THEN [bucket |-> b1, admitted |-> FALSE,
           retryAfter |-> CeilDiv(TokenScale - b1.tokens, RatePerTick)]
     ELSE [bucket |-> [b1 EXCEPT !.tokens = @ - TokenScale], admitted |-> TRUE,
           retryAfter |-> 0]

\* The clock advances.
Tick ==
  /\ clock < MaxClock
  /\ clock' = clock + 1
  /\ UNCHANGED <<clients, rl, rlmu, rlast, hist, routerVars, gzipVars>>

\* The requests the limiter has answered so far, over all keys.
RECURSIVE HandledIn(_)
HandledIn(ks) ==
  IF ks = {} THEN 0
  ELSE LET k == CHOOSE x \in ks : TRUE
       IN hist[k].admitted + hist[k].denied + HandledIn(ks \ {k})

Handled == HandledIn(Keys)

\* key := cfg.KeyFunc(c); now := time.Now()
ReadClock(p, k) ==
  /\ rl[p].pc = "idle"
  /\ Handled + Cardinality({q \in Procs : rl[q].pc # "idle"}) < MaxReqs
  /\ rl' = [rl EXCEPT ![p] = [pc |-> "read", key |-> k, now |-> clock]]
  /\ UNCHANGED <<clock, clients, rlmu, rlast, hist, routerVars, gzipVars>>

\* mu.Lock() of the request path returns
CanLock(m) == m = 0

\* As CanLockSweep, but the cleanup pass does not wait for the mutex.
CanLockSweep_always(m) == TRUE

\* mu.Lock() of the cleanup pass returns
CanLockSweep(m) == m = 0

\* The critical section on clients[key], and the answer that follows it.
Critical(p) ==
  /\ LET k == rl[p].key
         r == Allow(clients, k, rl[p].now)
     IN /\ clients' = (k :> r.bucket) @@ clients
        /\ rlast' = [key |-> k, now |-> rl[p].now,
                     status |-> IF r.admitted THEN 0 ELSE StatusTooManyRequests,
                     retryAfter |-> r.retryAfter,
                     body |-> IF r.admitted THEN <<>> ELSE RateLimitExceeded,
                     next |-> r.admitted,
                     before |-> IF k \in DOMAIN clients THEN clients[k].tokens
                                ELSE Burst * TokenScale,
                     tokens |-> r.bucket.tokens,
                     denials |-> hist[k].denials]
        /\ hist' = [hist EXCEPT ![k] =
                      [admitted |-> @.admitted + (IF r.admitted THEN 1 ELSE 0),
                       denied |-> @.denied + (IF r.admitted THEN 0 ELSE 1),
                       instants |-> @.instants \cup {rl[p].now},
                       swept |-> @.swept,
                       denials |-> IF r.admitted THEN {}
                                   ELSE @.denials \cup
                                          {[now |-> rl[p].now, tokens |-> r.bucket.tokens]}]]
  /\ rl' = [rl EXCEPT ![p] = [pc |-> "idle", key |-> "", now |-> 0]]
  /\ UNCHANGED <<clock, routerVars, gzipVars>>

\* mu.Lock() ... mu.Unlock(), then next(c) or the 429 answer, in one step
Limit(p) ==
  /\ rl[p].pc = "read"
  /\ CanLock(rlmu)
  /\ Critical(p)
  /\ UNCHANGED rlmu

\* mu.Lock(); b, ok := clients[key]; if !ok { b = &bucket{...}; clients[key] = b }
Enter(p) ==
  /\ rl[p].pc = "read"
  /\ CanLock(rlmu)
  /\ rlmu' = p
  /\ clients' = IF rl[p].key \in DOMAIN clients THEN clients
                ELSE (rl[p].key :> [tokens |-> Burst * TokenScale, lastSeen |-> rl[p].now])
                        @@ clients
  /\ rl' = [rl EXCEPT ![p].pc = "locked"]
  /\ UNCHANGED <<clock, rlast, hist, routerVars, gzipVars>>

\* the refill, the test and the decrement on b; mu.Unlock(); the answer
Leave(p) ==
  /\ rl[p].pc = "locked"
  /\ rlmu = p
  /\ Critical(p)
  /\ rlmu' = 0

\* One pass of the cleanup goroutine, under the same lock.
Sweep ==
  /\ CanLockSweep(rlmu)
  /\ LET stale == {k \in DOMAIN clients : clock - clients[k].lastSeen > StaleAfter}
     IN /\ stale # {}
        /\ clients' = [k \in (DOMAIN clients) \ stale |-> clients[k]]
        /\ hist' = [k \in Keys |-> IF k \in stale THEN [hist[k] EXCEPT !.swept = TRUE] ELSE hist[k]]
  /\ UNCHANGED <<clock, rl, rlmu, rlast, routerVars, gzipVars>>

NextRate ==
  \/ Tick
  \/ \E p \in Procs, k \in Keys : ReadClock(p, k)
  \/ \E p \in Procs : Limit(p)
  \/ Sweep

\* The critical section in two steps, so that the cleanup pass can be
\* scheduled between them.
NextSweep ==
  \/ Tick
  \/ \E p \in Procs, k \in Keys : ReadClock(p, k)
  \/ \E p \in Procs : Enter(p)
  \/ \E p \in Procs : Leave(p)
  \/ Sweep

\* ==================================================================
\* Gzip
\* ==================================================================
\* Bytes are "x" and "y".  The output of a gzip.Writer is the marker GZH (the
\* gzip header), each byte in its compressed form, GZS where the compressor was
\* flushed, and GZT (the trailer) when it was closed.
GZH == "GZH"
GZS == "GZS"
GZT == "GZT"

Deflate(b) == CASE b = "x" -> "zx" [] b = "y" -> "zy" [] OTHER -> "z?"
Inflate(z) == CASE z = "zx" -> "x" [] z = "zy" -> "y" [] OTHER -> "?"
DeflateAll(bs) == [i \in 1..Len(bs) |-> Deflate(bs[i])]

Chunks == { <<"x">>, <<"y", "x">> }
Codes == {StatusOK, 103, StatusNoContent, StatusNotModified}
AcceptEncodings == {"gzip", "br, gzip", "br"}
ContentTypes == {"text/plain", "image/png", "Video/mp4"}

\* As ContainsGzip, but every request is taken to accept gzip.
ContainsGzip_always(ae) == TRUE

\* strings.Contains(c.R.Header.Get("Accept-Encoding"), "gzip")
ContainsGzip(ae) == ae \in {"gzip", "br, gzip"}

skippedContentTypes ==
  {"image/jpeg", "image/png", "image/gif", "image/webp", "image/avif", "video/",
   "audio/", "application/zip", "application/gzip", "application/x-gzip",
   "application/x-compressed", "application/x-bzip2", "application/x-xz",
   "application/zstd", "application/wasm"}

ToLowerCT(ct) == CASE ct = "Video/mp4" -> "video/mp4" [] OTHER -> ct

HasPrefix(str, pre) == str = pre \/ <<str, pre>> \in {<<"video/mp4", "video/">>}

shouldSkipContentType(ct) ==
  \E skip \in skippedContentTypes : HasPrefix(ToLowerCT(ct), skip)

\* http.Header
HGet(h, k) == IF k \in DOMAIN h /\ h[k] # <<>> THEN h[k][1] ELSE ""
HSet(h, k, v) == (k :> <<v>>) @@ h
HAdd(h, k, v) == (k :> ((IF k \in DOMAIN h THEN h[k] ELSE <<>>) \o <<v>>)) @@ h
HDel(h, k) == [n \in (DOMAIN h) \ {k} |-> h[n]]

\* The underlying http.ResponseWriter records what it is given.  The first
\* status of 200 or more, or the first body write (an implicit 200), starts
\* the response: it fixes the status and sends the header map as it is then.
SinkWriteHeader(s, code) ==
  IF s.status = 0 /\ code >= 200
  THEN [s EXCEPT !.codes = Append(@, code), !.status = code, !.sent = s.header]
  ELSE [s EXCEPT !.codes = Append(@, code)]

SinkWrite(s, bs) ==
  IF s.status = 0
  THEN [s EXCEPT !.body = @ \o bs, !.status = StatusOK, !.sent = s.header]
  ELSE [s EXCEPT !.body = @ \o bs]

SinkFlush(s) == [s EXCEPT !.flushed = Len(s.body)]

\* gzip.Writer on top of the sink; st = [w |-> wrapper, s |-> sink].
NoWriter == [state |-> "nil", wroteHeader |-> FALSE, pending |-> <<>>]

gwHeader(st) ==
  IF st.w.gw.wroteHeader THEN st
  ELSE [st EXCEPT !.w.gw.wroteHeader = TRUE, !.s = SinkWrite(@, <<GZH>>)]

gwWrite(st, bs) ==
  LET st1 == gwHeader(st) IN [st1 EXCEPT !.w.gw.pending = @ \o bs]

gwFlush(st) ==
  LET st1 == gwHeader(st)
  IN [st1 EXCEPT !.s = SinkWrite(@, DeflateAll(st1.w.gw.pending) \o <<GZS>>),
                 !.w.gw.pending = <<>>]

gwClose(st) ==
  IF st.w.gw.state = "closed" THEN st
  ELSE LET st1 == gwHeader(st)
       IN [st1 EXCEPT !.s = SinkWrite(@, DeflateAll(st1.w.gw.pending) \o <<GZT>>),
                      !.w.gw.pending = <<>>, !.w.gw.state = "closed"]

\* gzip.NewReader(body) and reading it to the end: the bytes, or GunzipError.
GunzipError == <<"error">>

Gunzip(body) ==
  IF Len(body) < 2 \/ body[1] # GZH \/ body[Len(body)] # GZT THEN GunzipError
  ELSE LET inner == SubSeq(body, 2, Len(body) - 1)
       IN IF \E i \in 1..Len(inner) : inner[i] \notin {"zx", "zy", GZS} THEN GunzipError
          ELSE LET data == SelectSeq(inner, LAMBDA z : z # GZS)
               IN [i \in 1..Len(data) |-> Inflate(data[i])]

\* As NoBody, but 304 is not among the statuses without a body.
NoBody_without304(code) ==
  code = StatusNoContent \/ (code >= 100 /\ code < 200)

NoBody(code) ==
  code = StatusNoContent \/ code = StatusNotModified \/ (code >= 100 /\ code < 200)

WriteHeaderW(st, code) ==
  LET st1 == [st EXCEPT !.w.statusCode = code]
  IN IF NoBody(code)
     THEN [st1 EXCEPT !.w.decided = TRUE, !.w.compressing = FALSE,
                      !.s = SinkWriteHeader(@, code), !.w.headerWritten = TRUE]
     ELSE st1

decide(st) ==
  LET st1 == [st EXCEPT !.w.decided = TRUE]
  IN IF shouldSkipContentType(HGet(st.s.header, "Content-Type"))
     THEN [st1 EXCEPT !.w.compressing = FALSE]
     ELSE [st1 EXCEPT !.w.compressing = TRUE,
                      !.s.header = HSet(HDel(@, "Content-Length"), "Content-Encoding", "gzip"),
                      !.w.gw = [state |-> "open", wroteHeader |-> FALSE, pending |-> <<>>]]

\* As flush, but the buffered prefix goes to the sink as it is.
flush_rawPrefix(st) ==
  LET st1 == IF ~st.w.headerWritten /\ st.w.statusCode # 0
             THEN [st EXCEPT !.s = SinkWriteHeader(@, st.w.statusCode), !.w.headerWritten = TRUE]
             ELSE st
  IN IF Len(st1.w.buf) = 0 THEN st1
     ELSE [st1 EXCEPT !.s = SinkWrite(@, st1.w.buf), !.w.buf = <<>>]

flush(st) ==
  LET st1 == IF ~st.w.headerWritten /\ st.w.statusCode # 0
             THEN [st EXCEPT !.s = SinkWriteHeader(@, st.w.statusCode), !.w.headerWritten = TRUE]
             ELSE st
  IN IF Len(st1.w.buf) = 0 THEN st1
     ELSE IF st1.w.compressing /\ st1.w.gw.state # "nil"
          THEN [gwWrite(st1, st1.w.buf) EXCEPT !.w.buf = <<>>]
          ELSE [st1 EXCEPT !.s = SinkWrite(@, st1.w.buf), !.w.buf = <<>>]

WriteW(st, bs) ==
  IF ~st.w.decided
  THEN LET st1 == [st EXCEPT !.w.buf = @ \o bs]
       IN IF Len(st1.w.buf) >= MinLength THEN flush(decide(st1)) ELSE st1
  ELSE IF st.w.compressing THEN gwWrite(st, bs)
  ELSE [st EXCEPT !.s = SinkWrite(@, bs)]

close(st) ==
  LET st1 == IF ~st.w.decided
             THEN [st EXCEPT !.w.decided = TRUE, !.w.compressing = FALSE]
             ELSE st
      st2 == IF ~st1.w.headerWritten /\ st1.w.statusCode # 0
             THEN [st1 EXCEPT !.s = SinkWriteHeader(@, st1.w.statusCode), !.w.headerWritten = TRUE]
             ELSE st1
      st3 == IF Len(st2.w.buf) > 0
             THEN [st2 EXCEPT !.s = SinkWrite(@, st2.w.buf), !.w.buf = <<>>]
             ELSE st2
  IN IF st3.w.compressing /\ st3.w.gw.state # "nil" THEN gwClose(st3) ELSE st3

FlushW(st) ==
  LET st1 == IF st.w.compressing /\ st.w.gw.state # "nil" THEN gwFlush(st) ELSE st
  IN [st1 EXCEPT !.s = SinkFlush(@)]

NewWriter ==
  [wrapped |-> FALSE, buf |-> <<>>, decided |-> FALSE, compressing |-> FALSE,
   statusCode |-> 0, headerWritten |-> FALSE, gw |-> NoWriter]

NoFirst == [status |-> 0, header |-> <<>>, body |-> <<>>]

\* A sink that has received nothing.
NoResponse == [header |-> <<>>, codes |-> <<>>, body |-> <<>>, flushed |-> 0,
               status |-> 0, sent |-> <<>>]

InitGzip ==
  /\ gzw = NewWriter
  /\ sink = [header |-> <<>>, codes |-> <<>>, body |-> <<>>, flushed |-> 0,
             status |-> 0, sent |-> <<>>]
  /\ gzh = [phase |-> "idle", accept |-> "", cors |-> "", ct |-> "", written |-> <<>>,
            codes |-> <<>>, nops |-> 0, bypass |-> FALSE, direct |-> NoResponse]

  /\ ctx = [wrote |-> FALSE, status |-> 0]
  /\ ctxh = [calls |-> <<>>, after1 |-> NoFirst, panicked |-> FALSE, propagated |-> FALSE]

\* History: a status without a body, 204, 304 or 1xx.
BodilessStatus(code) == code \in {204, 304} \/ code \in 100..199

\* The handler returned by Gzip(cfg) is entered: the Accept-Encoding test,
\* the Vary header and the wrapping of c.W.
GzipEnter(ae) ==
  /\ gzh.phase = "idle"
  /\ IF ~ContainsGzip(ae)
     THEN UNCHANGED <<gzw, sink>>
     ELSE /\ sink' = [sink EXCEPT !.header = HAdd(@, "Vary", "Accept-Encoding")]
          /\ gzw' = [NewWriter EXCEPT !.wrapped = TRUE]
  /\ gzh' = [gzh EXCEPT !.phase = "headers", !.accept = ae]
  /\ UNCHANGED <<ctxVars, routerVars, rateVars>>

\* The headers CORS sets on a preflight request, and its Vary value.
VaryPreflight == "Origin, Access-Control-Request-Method, Access-Control-Request-Headers"

corsPreflightHeaders(h) ==
  HSet(HSet(HSet(HSet(HSet(h, "Access-Control-Allow-Origin", "*"),
                      "Access-Control-Allow-Methods", "methods"),
                 "Access-Control-Allow-Headers", "headers"),
            "Access-Control-Max-Age", "86400"),
       "Vary", VaryPreflight)

\* CORS(DefaultCORSConfig()) as an inner middleware, for a request with an
\* Origin header: a preflight request is answered by it with 204, an actual
\* request goes on to the handler.
CORS(preflight) ==
  /\ gzh.phase = "headers"
  /\ gzh.cors = ""
  /\ IF preflight
     THEN LET st0 == [w |-> gzw, s |-> [sink EXCEPT !.header = corsPreflightHeaders(@)]]
              st == IF gzw.wrapped THEN WriteHeaderW(st0, StatusNoContent)
                    ELSE [st0 EXCEPT !.s = SinkWriteHeader(@, StatusNoContent)]
          IN /\ gzw' = st.w
             /\ sink' = st.s
             /\ gzh' = [gzh EXCEPT !.phase = "returned", !.cors = "preflight",
                                   !.codes = Append(@, StatusNoContent),
                                   !.bypass = @ \/ sink.status = 0,
                                   !.direct = SinkWriteHeader(@, StatusNoContent)]
     ELSE /\ sink' = [sink EXCEPT !.header =
                         HAdd(HSet(@, "Access-Control-Allow-Origin", "*"), "Vary", "Origin")]
          /\ gzh' = [gzh EXCEPT !.cors = "actual"]
          /\ UNCHANGED gzw
  /\ UNCHANGED <<ctxVars, routerVars, rateVars>>

\* The inner handler sets its response headers: c.W.Header().Set(...)
HandlerHeaders(ct, withLength) ==
  /\ gzh.phase = "headers"
  /\ sink' = [sink EXCEPT !.header =
                 IF withLength THEN HSet(HSet(@, "Content-Type", ct), "Content-Length", "n")
                 ELSE HSet(@, "Content-Type", ct)]
  /\ gzh' = [gzh EXCEPT !.phase = "body", !.ct = ct]
  /\ UNCHANGED <<gzw, ctxVars, routerVars, rateVars>>

\* c.W.WriteHeader(code)
WriteHeader(code) ==
  /\ gzh.phase = "body"
  /\ gzh.nops < MaxOps
  /\ LET st == IF gzw.wrapped THEN WriteHeaderW([w |-> gzw, s |-> sink], code)
               ELSE [w |-> gzw, s |-> SinkWriteHeader(sink, code)]
     IN gzw' = st.w /\ sink' = st.s
  /\ gzh' = [gzh EXCEPT !.codes = Append(@, code), !.nops = @ + 1,
                        !.bypass = @ \/ (BodilessStatus(code) /\ sink.status = 0),
                        !.direct = SinkWriteHeader(@, code)]
  /\ UNCHANGED <<ctxVars, routerVars, rateVars>>

\* c.W.Write(b)
Write(bs) ==
  /\ gzh.phase = "body"
  /\ gzh.nops < MaxOps
  /\ Len(gzh.written) + Len(bs) <= MaxBody
  /\ LET st == IF gzw.wrapped THEN WriteW([w |-> gzw, s |-> sink], bs)
               ELSE [w |-> gzw, s |-> SinkWrite(sink, bs)]
     IN gzw' = st.w /\ sink' = st.s
  /\ gzh' = [gzh EXCEPT !.written = @ \o bs, !.nops = @ + 1,
                        !.direct = SinkWrite(@, bs)]
  /\ UNCHANGED <<ctxVars, routerVars, rateVars>>

\* c.W.(http.Flusher).Flush()
Flush ==
  /\ gzh.phase = "body"
  /\ gzh.nops < MaxOps
  /\ LET st == IF gzw.wrapped THEN FlushW([w |-> gzw, s |-> sink])
               ELSE [w |-> gzw, s |-> SinkFlush(sink)]
     IN gzw' = st.w /\ sink' = st.s
  /\ gzh' = [gzh EXCEPT !.nops = @ + 1]
  /\ UNCHANGED <<ctxVars, routerVars, rateVars>>

\* The inner handler returns: the deferred grw.close() and c.W = original.
GzipLeave ==
  /\ gzh.phase \in {"body", "returned", "ctx"}
  /\ LET st == IF gzw.wrapped THEN close([w |-> gzw, s |-> sink])
               ELSE [w |-> gzw, s |-> sink]
     IN gzw' = st.w /\ sink' = st.s
  /\ gzh' = [gzh EXCEPT !.phase = "done"]
  /\ UNCHANGED <<ctxVars, routerVars, rateVars>>

\* ==================================================================
\* Context and Recover
\* ==================================================================
\* cs = [c |-> Context fields, w |-> wrapper, s |-> sink, out |-> bytes handed
\* to c.W]; c.W is the wrapper when Gzip has wrapped it, else the sink.
WHeaderSet(cs, k, v) == [cs EXCEPT !.s.header = HSet(@, k, v)]

WWriteHeader(cs, code) ==
  IF cs.w.wrapped
  THEN LET st == WriteHeaderW([w |-> cs.w, s |-> cs.s], code)
       IN [cs EXCEPT !.w = st.w, !.s = st.s]
  ELSE [cs EXCEPT !.s = SinkWriteHeader(@, code)]

WWrite(cs, bs) ==
  LET cs1 == [cs EXCEPT !.out = @ \o bs]
  IN IF cs.w.wrapped
     THEN LET st == WriteW([w |-> cs.w, s |-> cs.s], bs)
          IN [cs1 EXCEPT !.w = st.w, !.s = st.s]
     ELSE [cs1 EXCEPT !.s = SinkWrite(@, bs)]

\* json.NewEncoder(&buf).Encode(v): the bytes, or an error
Unencodable == "unencodable"
EncodeError == <<"error">>
Encode(v) == IF v = Unencodable THEN EncodeError ELSE <<"y", "x">>

\* Context.Status(code)
Status(cs, code) ==
  IF cs.c.wrote THEN cs
  ELSE [WWriteHeader([cs EXCEPT !.c.status = code], code) EXCEPT !.c.wrote = TRUE]

\* Context.JSON(code, v)
JSON(cs, code, v) ==
  IF cs.c.wrote THEN cs
  ELSE IF Encode(v) = EncodeError
  THEN [WWriteHeader(cs, StatusInternalServerError)
          EXCEPT !.c.status = StatusInternalServerError, !.c.wrote = TRUE]
  ELSE LET cs1 == WHeaderSet(cs, "Content-Type", "application/json; charset=utf-8")
           cs2 == WWriteHeader([cs1 EXCEPT !.c.status = code], code)
       IN [WWrite(cs2, Encode(v)) EXCEPT !.c.wrote = TRUE]

\* Context.Text(code, s)
Text(cs, code, str) ==
  IF cs.c.wrote THEN cs
  ELSE LET cs1 == WHeaderSet(cs, "Content-Type", "text/plain; charset=utf-8")
           cs2 == WWriteHeader([cs1 EXCEPT !.c.status = code], code)
       IN [WWrite(cs2, str) EXCEPT !.c.wrote = TRUE]

\* Context.Bytes(code, b, contentType)
Bytes(cs, code, b, contentType) ==
  IF cs.c.wrote THEN cs
  ELSE LET cs1 == IF contentType # "" THEN WHeaderSet(cs, "Content-Type", contentType) ELSE cs
           cs2 == WWriteHeader([cs1 EXCEPT !.c.status = code], code)
       IN [WWrite(cs2, b) EXCEPT !.c.wrote = TRUE]

\* Context.NoContent()
NoContent(cs) == Status(cs, StatusNoContent)

\* Context.Redirect(code, location)
Redirect(cs, code, location) ==
  LET code1 == IF code = 0 THEN StatusFound ELSE code
  IN Status(WHeaderSet(cs, "Location", location), code1)

\* The calls a handler may make.
CtxCalls ==
  { [m |-> "JSON", code |-> StatusOK, v |-> "v"],
    [m |-> "JSON", code |-> StatusOK, v |-> Unencodable],
    [m |-> "Text", code |-> 409, v |-> <<"x">>],
    [m |-> "Bytes", code |-> StatusOK, v |-> <<"x", "y">>],
    [m |-> "Status", code |-> 202, v |-> ""],
    [m |-> "NoContent", code |-> 0, v |-> ""],
    [m |-> "Redirect", code |-> 0, v |-> "/y"] }

Apply(cs, call) ==
  CASE call.m = "JSON" -> JSON(cs, call.code, call.v)
    [] call.m = "Text" -> Text(cs, call.code, call.v)
    [] call.m = "Bytes" -> Bytes(cs, call.code, call.v, "image/png")
    [] call.m = "Status" -> Status(cs, call.code)
    [] call.m = "NoContent" -> NoContent(cs)
    [] call.m = "Redirect" -> Redirect(cs, call.code, call.v)

\* ErrorResponse{Error: "internal server error"}
InternalServerError == "internal server error"
RecoverCall == [m |-> "JSON", code |-> StatusInternalServerError, v |-> InternalServerError]

\* The state after a call, and the history of it.
Called(cs, call) ==
  /\ ctx' = cs.c
  /\ gzw' = cs.w
  /\ sink' = cs.s
  /\ ctxh' = [ctxh EXCEPT
                !.calls = Append(@, call),
                !.after1 = IF ctx.wrote \/ ~cs.c.wrote THEN @
                           ELSE [status |-> cs.c.status, header |-> cs.s.header,
                                 body |-> cs.out]]

\* The handler, or a middleware inside Gzip, makes one response-writing call.
CtxCall(call) ==
  /\ gzh.phase \in {"headers", "ctx"}
  /\ Len(ctxh.calls) < MaxCalls
  /\ Called(Apply([c |-> ctx, w |-> gzw, s |-> sink, out |-> <<>>], call), call)
  /\ gzh' = [gzh EXCEPT !.phase = "ctx"]
  /\ UNCHANGED <<routerVars, rateVars>>

\* The handler panics under r.Use(Recover(nil), Gzip(cfg)): Gzip's deferred
\* close() runs and c.W is the original writer again, then the deferred
\* function of Recover recovers and calls c.JSON(500, ...).
HandlerPanics ==
  /\ gzh.phase \in {"headers", "ctx"}
  /\ LET st == IF gzw.wrapped THEN close([w |-> gzw, s |-> sink])
               ELSE [w |-> gzw, s |-> sink]
         cs == [c |-> ctx, w |-> [st.w EXCEPT !.wrapped = FALSE], s |-> st.s, out |-> <<>>]
         r == JSON(cs, RecoverCall.code, RecoverCall.v)
     IN /\ ctx' = r.c
        /\ gzw' = [r.w EXCEPT !.wrapped = gzw.wrapped]
        /\ sink' = r.s
        /\ ctxh' = [ctxh EXCEPT
                      !.calls = Append(@, RecoverCall),
                      !.panicked = TRUE,
                      !.after1 = IF ctx.wrote THEN @
                                 ELSE [status |-> r.c.status, header |-> r.s.header,
                                       body |-> r.out]]
  /\ gzh' = [gzh EXCEPT !.phase = "done"]
  /\ UNCHANGED <<routerVars, rateVars>>

NextCtx ==
  \/ \E ae \in AcceptEncodings : GzipEnter(ae)
  \/ \E call \in CtxCalls : CtxCall(call)
  \/ HandlerPanics
  \/ GzipLeave

NextGzip ==
  \/ \E ae \in AcceptEncodings : GzipEnter(ae)
  \/ \E preflight \in BOOLEAN : CORS(preflight)
  \/ \E ct \in ContentTypes, wl \in BOOLEAN : HandlerHeaders(ct, wl)
  \/ \E code \in Codes : WriteHeader(code)
  \/ \E bs \in Chunks : Write(bs)
  \/ Flush
  \/ GzipLeave

\* ==================================================================
\* Specifications
\* ==================================================================
Init == InitRouter /\ InitRate /\ InitGzip
Next == NextRouter
Spec == Init /\ [][Next]_vars
SpecChain == Init /\ [][NextChain]_vars
SpecHead == Init /\ [][NextHead]_vars
SpecReg == Init /\ [][NextReg]_vars
SpecGroup == Init /\ [][NextGroup]_vars
SpecRate == Init /\ [][NextRate]_vars
SpecSweep == Init /\ [][NextSweep]_vars
SpecGzip == Init /\ [][NextGzip]_vars
SpecCtx == Init /\ [][NextCtx]_vars
SpecConc == Init /\ [][NextConc]_vars

\* ==================================================================
\* Properties of the router
\* ==================================================================
Served == last.op = "serve"
Dispatched == Served /\ last.out.kind = "handler"
ReqParts == splitPath(last.req.path)

\* The events a request must produce under middleware ms around a terminal
\* event: befores in order, the terminal, afters in reverse order.
ExpectedTrace(ms, term) ==
  [i \in 1..(2 * Len(ms) + 1) |->
     IF i <= Len(ms) THEN <<ms[i], "before">>
     ELSE IF i = Len(ms) + 1 THEN term
     ELSE <<ms[2 * Len(ms) + 2 - i], "after">>]

\* C1: every dispatched request, whether it ends in a route handler or in the
\* not-found / method-not-allowed hook, runs the before-parts of the
\* router-level middleware in registration order, then the terminal handler
\* exactly once, then the after-parts in reverse order.
C1_MiddlewareOrder ==
  (Served /\ last.out.kind # "redirect") =>
     last.out.trace =
       ExpectedTrace(mw, <<(IF last.out.kind = "handler" THEN "handler" ELSE last.out.kind), "run">>)

C1_Witness ==
  /\ Served
  /\ mw = <<"A", "B", "C">>
  /\ last.out.kind = "hook"

\* A pattern without parameter or wildcard segments.
IsLiteral(parts) == \A i \in 1..Len(parts) : ~HasColonPrefix(parts[i]) /\ parts[i] # "*"

\* The registration that holds the binding of (method, parts): the last one.
IsBinding(k) ==
  \A j \in (k + 1)..Len(routes) :
     ~(routes[j].method = routes[k].method /\ routes[j].parts = routes[k].parts)

\* C2: for every registered (method, literal-only path), a request with that
\* method and exactly that path is dispatched to the handler registered for
\* the pair.
C2_LiteralRouteFound ==
  \A k \in 1..Len(routes) :
     ( /\ Served
       /\ IsLiteral(routes[k].parts)
       /\ IsBinding(k)
       /\ last.req.method = routes[k].method
       /\ last.req.path = <<SEP>> \o Join(routes[k].parts) )
     => (last.out.kind = "handler" /\ last.out.handler = routes[k].id)

\* A request path matches a pattern segment by segment.
RECURSIVE Matches(_, _)
Matches(pattern, parts) ==
  IF pattern = <<>> THEN parts = <<>>
  ELSE IF pattern = <<"*">> THEN Len(parts) >= 1
  ELSE /\ parts # <<>>
       /\ (HasColonPrefix(pattern[1]) \/ pattern[1] = parts[1])
       /\ Matches(Tail(pattern), Tail(parts))

\* C3: a route's handler is invoked only for requests whose normalized path
\* matches the route's pattern segment by segment, with no request segment
\* skipped.
C3_HandlerOnlyOnMatch ==
  Dispatched => Matches(routes[last.out.handler].parts, ReqParts)

\* C4: a dispatched handler's parameter map binds every parameter name of the
\* route's pattern to the request segment at that position, and "*" to the
\* remaining request segments joined by "/" for a pattern ending in a
\* wildcard.
C4_ParamsBound ==
  Dispatched =>
    LET pat == routes[last.out.handler].parts
        ps == last.out.params
    IN \A j \in 1..Len(pat) :
         /\ (HasColonPrefix(pat[j]) /\ j <= Len(ReqParts)) =>
              (StripColon(pat[j]) \in DOMAIN ps /\ ps[StripColon(pat[j])] = <<ReqParts[j]>>)
         /\ (pat[j] = "*" /\ j = Len(pat) /\ j <= Len(ReqParts)) =>
              ("*" \in DOMAIN ps /\ ps["*"] = Join(SubSeq(ReqParts, j, Len(ReqParts))))

\* The lookup contract: a trie node is the prefix of a registered pattern that
\* leads to it.  At each level the literal child is preferred, else the
\* parameter child or the wildcard child is taken (the wildcard ends the
\* walk); a choice is never undone.  RefNodes is the set of nodes the contract
\* allows for the request path.
RegisteredParts == {routes[k].parts : k \in 1..Len(routes)}

IsPrefix(pre, pat) == Len(pre) <= Len(pat) /\ SubSeq(pat, 1, Len(pre)) = pre

Kids(pre) == {pat[Len(pre) + 1] : pat \in {q \in RegisteredParts : IsPrefix(pre, q) /\ Len(q) > Len(pre)}}

RECURSIVE RefNodes(_, _)
RefNodes(pre, rest) ==
  IF rest = <<>> THEN {pre}
  ELSE IF Head(rest) \in Kids(pre) THEN RefNodes(Append(pre, Head(rest)), Tail(rest))
  ELSE UNION {RefNodes(Append(pre, k), Tail(rest)) : k \in Kids(pre) \cap ColonSegs}
       \cup (IF "*" \in Kids(pre) THEN {Append(pre, "*")} ELSE {})

MethodsAt(pre) == {routes[k].method : k \in {j \in 1..Len(routes) : routes[j].parts = pre}}

\* The answers the contract allows: 404, 405, or 0 for a route handler.
RefAnswer(pre, m) ==
  IF MethodsAt(pre) = {} THEN StatusNotFound
  ELSE IF m \in MethodsAt(pre) THEN 0
  ELSE StatusMethodNotAllowed

RefAnswers(parts, m) ==
  IF RefNodes(<<>>, parts) = {} THEN {StatusNotFound}
  ELSE {RefAnswer(pre, m) : pre \in RefNodes(<<>>, parts)}

\* The answer when "matches" is read segment by segment, without the
\* preference for literals.
PathMatch == \E k \in 1..Len(routes) : Matches(routes[k].parts, ReqParts)
RouteMatch ==
  \E k \in 1..Len(routes) :
     Matches(routes[k].parts, ReqParts) /\ routes[k].method = ToUpper(last.req.method)

SegmentwiseAnswer ==
  IF RouteMatch THEN 0 ELSE IF PathMatch THEN StatusMethodNotAllowed ELSE StatusNotFound

\* C5: a request whose path matches a registered pattern, but none registered
\* for its method, is answered 405; one whose path matches no registered
\* pattern is answered 404; one whose path and method match a registered
\* route gets neither.  The answer may be the one of either reading of
\* "matches": the lookup contract, or segment by segment.  HEAD requests,
\* which may fall back to GET, and requests answered by the trailing-slash
\* redirect are left out.
C5_NotFoundVsMethodNotAllowed ==
  (Served /\ last.req.method # MethodHead /\ last.out.kind # "redirect") =>
     last.out.status \in RefAnswers(ReqParts, ToUpper(last.req.method)) \cup {SegmentwiseAnswer}

\* C10: with RedirectTrailingSlash enabled, a request whose path contains a
\* backslash, or whose redirect target would begin with two separators, never
\* receives a redirect response.
BackslashSegs == {"\\evil.com"}
HasBackslash(p) == \E i \in 1..Len(p) : p[i] \in BackslashSegs
DoubleSepPrefix(p) == Len(p) >= 2 /\ p[1] = SEP /\ p[2] = SEP

C10_NoOpenRedirect ==
  (Served /\ RedirectTrailingSlash
     /\ (HasBackslash(last.req.path) \/ DoubleSepPrefix(TrimRight(last.req.path)))) =>
     (last.out.kind # "redirect" /\ last.out.status # StatusMovedPermanently
        /\ last.out.location = <<>>)

\* ------------------------------------------------------------ registration
Registering == last.op = "handle"
Panicked == Registering /\ last.out.kind = "panic"

\* The registrations that had returned before the last call of Handle.
Prior == IF last.out.kind = "registered" THEN SubSeq(routes, 1, Len(routes) - 1) ELSE routes

Rooted(p) == p # <<>> /\ p[1] = SEP

\* Position j of parts holds a parameter whose name differs from the parameter
\* that the registered pattern pat holds at the same trie position.
ConflictAt(parts, pat, j) ==
  /\ j <= Len(parts) /\ j <= Len(pat)
  /\ SubSeq(parts, 1, j - 1) = SubSeq(pat, 1, j - 1)
  /\ HasColonPrefix(parts[j]) /\ HasColonPrefix(pat[j])
  /\ parts[j] # pat[j]

Conflicts(parts) ==
  {j \in 1..Len(parts) : \E k \in 1..Len(Prior) : ConflictAt(parts, Prior[k].parts, j)}

\* C11: registering a pattern with a parameter segment whose name differs
\* from the parameter already registered at that trie position panics with a
\* message that names the conflicting parameter; a pattern without such a
\* segment, a repeated parameter name included, is registered.
C11_ParamConflictPanics ==
  (Registering /\ last.h # NIL /\ Rooted(last.req.path)) =>
     LET parts == splitPath(last.req.path)
     IN IF Conflicts(parts) # {}
        THEN /\ last.out.kind = "panic"
             /\ \E j \in Conflicts(parts), i \in 1..Len(last.out.msg) : last.out.msg[i] = parts[j]
        ELSE last.out.kind = "registered"

C11_Witness ==
  /\ Panicked
  /\ last.req.path = <<SEP, "a", SEP, ":x">>
  /\ \E k \in 1..Len(routes) : routes[k].parts = <<"a", ":id", "b">>

\* C12: a registration with a nil handler, or with a pattern that is empty or
\* unrooted, panics; and a registration that panics, for whatever reason,
\* leaves the trie with its handler tables as it was and the lock released.
C12_FailedRegistrationChangesNothing ==
  [][ (last'.op = "handle" /\ last' # last) =>
        /\ (last'.h = NIL \/ ~Rooted(last'.req.path)) => last'.out.kind = "panic"
        /\ (last'.out.kind = "panic") =>
              (nodes' = nodes /\ routes' = routes /\ mu' = "unlocked") ]_vars

C12_Witness ==
  /\ Panicked
  /\ last.out.msg = <<"path must start with /">>
  /\ Len(nodes) > 1
  /\ mu = "unlocked"

\* ------------------------------------------------------------------- HEAD
\* The pattern that leads to node n of the trie: the segments from the root.
RECURSIVE PatternOf(_)
PatternOf(n) ==
  IF n = 1 THEN <<>>
  ELSE LET parent == CHOOSE q \in 1..Len(nodes) :
                        \E i \in 1..Len(nodes[q].children) : nodes[q].children[i] = n
       IN Append(PatternOf(parent), nodes[n].segment)

\* The handler registered last for (method, pattern), or NIL.
Bound(method, pattern) ==
  LET ks == {k \in 1..Len(routes) : routes[k].method = method /\ routes[k].parts = pattern}
  IN IF ks = {} THEN NIL ELSE routes[CHOOSE k \in ks : \A j \in ks : j <= k].id

\* What the same request gets when it is made with GET.
AsGet ==
  ServeHTTP(nodes, mw, RedirectTrailingSlash, ErrorHandler, notFound, methodNA,
            [last.req EXCEPT !.method = MethodGet])

\* C13: a HEAD request to a matched path runs the HEAD handler registered
\* there if there is one; otherwise the GET handler registered there, with
\* the parameters a GET request for the path gets; otherwise, when only other
\* methods are registered there, it is answered 405.
C13_AutoHead ==
  (Served /\ last.req.method = MethodHead /\ last.out.kind # "redirect") =>
     LET n == find(nodes, last.req.path).n
         pat == PatternOf(n)
     IN (n # NIL /\ MethodsAt(pat) # {}) =>
          IF Bound(MethodHead, pat) # NIL
          THEN last.out.kind = "handler" /\ last.out.handler = Bound(MethodHead, pat)
          ELSE IF Bound(MethodGet, pat) # NIL
          THEN /\ last.out.kind = "handler" /\ last.out.handler = Bound(MethodGet, pat)
               /\ last.out.params = AsGet.params
          ELSE last.out.status = StatusMethodNotAllowed

C13_Witness ==
  /\ Served /\ last.req.method = MethodHead
  /\ last.out.kind = "handler"
  /\ routes[last.out.handler].method = MethodGet
  /\ routes[last.out.handler].parts = <<"a", ":id">>
  /\ DOMAIN last.out.params = {"id"}
  /\ \E k \in 1..Len(routes) : routes[k].method = "POST"

\* ----------------------------------------------------------------- groups
\* C14: a request for a route registered through a group runs the
\* router-level middleware first, in registration order, then the group's
\* middleware, then the route's own middleware, then the handler, and the
\* after-parts in the reverse order.
C14_GroupMiddlewareOrder ==
  Dispatched =>
    LET rt == routes[last.out.handler]
    IN last.out.trace = ExpectedTrace(mw \o rt.gmw \o rt.own, <<"handler", "run">>)

C14_Witness ==
  /\ Dispatched
  /\ Len(mw) = 2
  /\ routes[last.out.handler].gmw = <<"G", "H">>
  /\ routes[last.out.handler].own = <<"R">>
  /\ routes[last.out.handler].parts = <<"a", "b">>

\* ------------------------------------------------------------ error hook
ErrorOutcome == Served /\ last.out.kind \notin {"handler", "redirect"}

\* C15: when Router.ErrorHandler is set, every not-found outcome invokes it
\* with (404, ErrNotFound) and every method-not-allowed outcome with
\* (405, ErrMethodNotAllowed), never with another pair, and the handlers
\* installed with NotFound / MethodNotAllowed are not used; when it is not
\* set, those handlers, or the defaults of New, answer.
C15_ErrorHandlerArguments ==
  ErrorOutcome =>
    IF ErrorHandler
    THEN /\ last.out.kind = "hook"
         /\ <<last.out.status, last.out.err>> \in
               { <<StatusNotFound, ErrNotFound>>, <<StatusMethodNotAllowed, ErrMethodNotAllowed>> }
         /\ last.out.status = SegmentwiseAnswer
    ELSE /\ last.out.status = SegmentwiseAnswer
         /\ last.out.status = StatusNotFound =>
               last.out.kind = (IF notFound = "custom" THEN "customNotFound" ELSE "notFound")
         /\ last.out.status = StatusMethodNotAllowed =>
               last.out.kind = (IF methodNA = "custom" THEN "customMethodNA" ELSE "methodNA")

C15_Witness ==
  /\ ErrorOutcome /\ ErrorHandler
  /\ notFound = "custom" /\ methodNA = "custom"
  /\ last.out.kind = "hook"
  /\ last.out.status = StatusMethodNotAllowed
  /\ last.out.err = ErrMethodNotAllowed

\* --------------------------------------------------------------- redirect
\* l is p without its trailing separators.
StrippedOf(l, p) ==
  /\ Len(l) < Len(p)
  /\ l = SubSeq(p, 1, Len(l))
  /\ ~HasSuffixSep(l)
  /\ \A i \in (Len(l) + 1)..Len(p) : p[i] = SEP

SameBinding(k) ==
  {j \in 1..Len(routes) : routes[j].method = routes[k].method /\ routes[j].parts = routes[k].parts}

\* C17: after the same (method, pattern) has been registered more than once,
\* a request dispatched to it invokes the handler of the most recent
\* registration, exactly once, inside that registration's per-route
\* middleware; a handler of an earlier registration is never invoked.
C17_LastRegistrationWins ==
  Dispatched =>
    LET k == last.out.handler
    IN /\ \A j \in SameBinding(k) : j <= k
       /\ k = Bound(routes[k].method, routes[k].parts)
       /\ last.out.trace = ExpectedTrace(mw \o routes[k].own, <<"handler", "run">>)

C17_Witness ==
  /\ Dispatched
  /\ last.out.handler = 2
  /\ SameBinding(2) = {1, 2}
  /\ routes[1].own = <<"R">>
  /\ routes[2].own = <<"S">>

\* ==================================================================
\* Properties of the rate limiter
\* ==================================================================
\* C6: for a key that starts without a bucket and whose requests all observe
\* the same instant, exactly Burst requests are admitted and every further
\* one is denied, in every interleaving of the requests.
C6_BurstAtOneInstant ==
  \A k \in Keys :
     (Cardinality(hist[k].instants) <= 1 /\ ~hist[k].swept) =>
        hist[k].admitted =
          (IF hist[k].admitted + hist[k].denied <= Burst
           THEN hist[k].admitted + hist[k].denied ELSE Burst)

C6_Witness ==
  \E k \in Keys :
     /\ Cardinality(hist[k].instants) = 1 /\ ~hist[k].swept
     /\ hist[k].admitted = Burst
     /\ hist[k].denied >= 1
     /\ rlast.key = k /\ rlast.status = StatusTooManyRequests

\* C7: every bucket satisfies 0 <= tokens <= Burst in every reachable state.
C7_TokensInRange ==
  \A k \in DOMAIN clients :
     0 <= clients[k].tokens /\ clients[k].tokens <= Burst * TokenScale

\* C18: every denied request is answered 429 with the structured error body
\* and a Retry-After of ceil((1 - tokens) / rate) whole seconds, at least 1;
\* the downstream handler is not invoked, and the request does not lower the
\* bucket's tokens.
Denied == rlast.status = StatusTooManyRequests

C18_DenialContract ==
  /\ (rlast.key # "" /\ ~rlast.next) => Denied
  /\ Denied =>
       /\ rlast.body = RateLimitExceeded
       /\ ~rlast.next
       /\ rlast.retryAfter >= 1
       /\ (rlast.retryAfter - 1) * RatePerTick < TokenScale - rlast.tokens
       /\ TokenScale - rlast.tokens <= rlast.retryAfter * RatePerTick
       /\ rlast.tokens >= rlast.before

\* The bucket map as key k sees it: its own bucket, if it has one.
OwnBucket(k) == [j \in (DOMAIN clients) \cap {k} |-> clients[j]]

\* C19: a request of key k reads and writes only k's bucket: the buckets of
\* the other keys are neither created, removed nor changed by it, and its
\* answer is the one it would get if no other key had a bucket, so a key is
\* never denied because another key is exhausted.
C19_KeysAreIndependent ==
  [][\A p \in Procs :
       (rl[p].pc = "read" /\ rl'[p].pc = "idle") =>
          LET k == rl[p].key
              own == Allow(OwnBucket(k), k, rl[p].now)
          IN /\ \A j \in Keys \ {k} :
                   /\ (j \in DOMAIN clients') <=> (j \in DOMAIN clients)
                   /\ j \in DOMAIN clients => clients'[j] = clients[j]
             /\ clients'[k] = own.bucket
             /\ rlast'.key = k
             /\ rlast'.next = own.admitted]_vars

C19_Witness ==
  /\ "k1" \in DOMAIN clients
  /\ Exhausted(clients["k1"])
  /\ hist["k1"].denied >= 1
  /\ rlast.key = "k2"
  /\ rlast.next
  /\ hist["k2"].admitted = 1

\* The request just answered came at least (1 - tokens) / rate seconds after
\* denial d of its key.
DueSince(d) == (rlast.now - d.now) * RatePerTick >= TokenScale - d.tokens

\* C20: a request of a key that arrives at least (1 - tokens) / rate seconds
\* after a denial of that key, tokens being the level at that denial, is
\* admitted, however many requests of the key were denied in between.
C20_AdmittedAfterWaiting ==
  (rlast.key # "" /\ \E d \in rlast.denials : DueSince(d)) => rlast.next

C20_Witness ==
  /\ rlast.key # ""
  /\ rlast.next
  /\ ~hist[rlast.key].swept
  /\ \E d, e \in rlast.denials :
        /\ DueSince(d)
        /\ d.now < e.now

\* The buckets a goroutine inside the critical section refers to.
InSection(p) == rl[p].pc = "locked"

\* C21: the cleanup pass and the critical section of a request exclude each
\* other: a goroutine inside the section holds the mutex and its bucket is in
\* the map; a cleanup pass runs only while nobody is inside, removes exactly
\* the buckets whose lastSeen is more than StaleAfter before the time of the
\* pass and changes no other; and when a request leaves the section its
\* update is in the map.
C21_SweepExcludesRequests ==
  /\ [](\A p \in Procs : InSection(p) => (rlmu = p /\ rl[p].key \in DOMAIN clients))
  /\ [][(DOMAIN clients' # DOMAIN clients /\ DOMAIN clients' \subseteq DOMAIN clients) =>
          /\ \A p \in Procs : ~InSection(p)
          /\ \A k \in DOMAIN clients :
                (k \notin DOMAIN clients') <=> (clock - clients[k].lastSeen > StaleAfter)
          /\ \A k \in DOMAIN clients' : clients'[k] = clients[k]]_vars
  /\ [][\A p \in Procs :
          (InSection(p) /\ ~InSection(p)') =>
             /\ rl[p].key \in DOMAIN clients'
             /\ clients'[rl[p].key].lastSeen = rl[p].now
             /\ clients'[rl[p].key].tokens = rlast'.tokens]_vars

C21_Witness ==
  \E p \in Procs :
     /\ InSection(p)
     /\ clock - clients[rl[p].key].lastSeen > StaleAfter
     /\ hist[rl[p].key].admitted >= 1
     /\ \E k \in DOMAIN clients : hist[k].swept

\* ==================================================================
\* Properties of the gzip response writer
\* ==================================================================
Finalized == gzh.phase = "done"
AcceptsGzip == gzh.accept \in {"gzip", "br, gzip"}
ExemptType == gzh.ct \in {"image/png", "Video/mp4"}
BodyStatusOnly == \A i \in 1..Len(gzh.codes) : ~NoBody(gzh.codes[i])
Encoded == HGet(sink.header, "Content-Encoding") = "gzip"

C9_SmallOrExemptNotCompressed ==
  (Finalized /\ (Len(gzh.written) < MinLength \/ ExemptType)) =>
     (~Encoded /\ sink.body = gzh.written)

\* The Vary values of the response name Accept-Encoding.
VaryAcceptEncoding(h) ==
  "Vary" \in DOMAIN h /\ \E i \in 1..Len(h["Vary"]) : h["Vary"][i] = "Accept-Encoding"

\* C22: when the request advertises gzip, the finalized response carries
\* Vary: Accept-Encoding, compressed or not, whatever ran inside the
\* middleware.
C22_VaryAlwaysSet ==
  (Finalized /\ AcceptsGzip) =>
     (VaryAcceptEncoding(sink.header) /\ (sink.status # 0 => VaryAcceptEncoding(sink.sent)))

\* A step of the handler on the wrapper.
Wrapped == gzw.wrapped /\ gzw'.wrapped
WriteStep == gzh'.written # gzh.written
HeaderStep == gzh'.codes # gzh.codes
FlushStep ==
  gzh'.nops = gzh.nops + 1 /\ gzh'.written = gzh.written /\ gzh'.codes = gzh.codes
NewBytes == Len(gzh'.written) - Len(gzh.written)

\* C23: the compression decision is made once and is irreversible: decided
\* never goes back to false, compressing does not change once decided,
\* whatever the handler calls afterwards, and the decision is taken when the
\* buffered bytes reach MinLength or at finalization as 'uncompressed' (or
\* by a status without a body, which bypasses it).
C23_DecisionIrreversible ==
  [][Wrapped =>
       /\ gzw.decided => (gzw'.decided /\ gzw'.compressing = gzw.compressing)
       /\ (~gzw.decided /\ gzw'.decided) =>
             \/ WriteStep /\ Len(gzw.buf) + NewBytes >= MinLength
             \/ gzh'.phase = "done" /\ ~gzw'.compressing
             \/ HeaderStep /\ BodilessStatus(gzh'.codes[Len(gzh'.codes)]) /\ ~gzw'.compressing
       /\ (~gzw.decided /\ WriteStep /\ Len(gzw.buf) + NewBytes >= MinLength) => gzw'.decided
       /\ gzh'.phase = "done" => gzw'.decided]_vars

\* C24: a status of 204, 304 or 1xx is forwarded to the sink in the call that
\* sets it, and a response whose status it becomes bypasses buffering and
\* the decision: nothing is buffered from then on and the response is never
\* compressed.
C24_BodilessStatusBypasses ==
  /\ [][(Wrapped /\ HeaderStep /\ BodilessStatus(gzh'.codes[Len(gzh'.codes)])) =>
          sink'.codes = Append(sink.codes, gzh'.codes[Len(gzh'.codes)])]_vars
  /\ []((gzw.wrapped /\ gzh.bypass) => (gzw.decided /\ ~gzw.compressing /\ ~Encoded))
  /\ [][(Wrapped /\ gzh.bypass /\ WriteStep) =>
          (gzw'.buf = gzw.buf /\ Len(sink'.body) = Len(sink.body) + NewBytes)]_vars

C24_Witness ==
  /\ Finalized /\ gzw.wrapped /\ gzh.bypass
  /\ sink.status = StatusNotModified
  /\ gzh.codes = <<StatusNotModified>>
  /\ Len(gzh.written) >= MinLength

\* C25: Flush on the wrapper flushes the compressor and then the sink: when
\* it returns, every byte the handler has written is with the sink, and the
\* sink has been flushed.
C25_FlushDeliversEverything ==
  [][(Wrapped /\ FlushStep) =>
       /\ gzw'.buf = <<>>
       /\ gzw'.gw.pending = <<>>
       /\ sink'.flushed = Len(sink'.body)
       /\ (IF gzw'.compressing
           THEN SelectSeq(sink'.body, LAMBDA z : z \notin {GZH, GZS}) = DeflateAll(gzh.written)
           ELSE sink'.body = gzh.written)]_vars

\* C26: when Accept-Encoding does not advertise gzip the sink is not wrapped:
\* what the handler writes reaches the sink as it is, call by call, and the
\* middleware adds neither Content-Encoding nor Vary: Accept-Encoding.
C26_NoGzipNoWrap ==
  (gzh.phase # "idle" /\ ~AcceptsGzip) =>
     /\ ~gzw.wrapped
     /\ gzw = NewWriter
     /\ sink.body = gzh.written
     /\ sink.codes = gzh.codes
     /\ ~Encoded
     /\ ~VaryAcceptEncoding(sink.header)
     /\ (gzh.cors = "" => "Vary" \notin DOMAIN sink.header)

C26_Witness ==
  /\ Finalized /\ ~AcceptsGzip
  /\ gzh.accept = "br"
  /\ Len(gzh.written) >= MinLength
  /\ gzh.ct = "text/plain"
  /\ gzh.cors = ""
  /\ sink.body = gzh.written
  /\ sink.flushed > 0

\* The header lines of h other than those the Gzip middleware manages.
OwnLines(h) ==
  [k \in (DOMAIN h) \ {"Vary", "Content-Encoding", "Content-Length"} |-> h[k]]

\* The body the client reads.
Delivered == IF Encoded THEN Gunzip(sink.body) ELSE sink.body

\* C27: a Context accepts one response: once a response-writing call has
\* written, the later ones are ignored, and the status, the header lines
\* (Content-Type among them) and the body the client receives are those the
\* first call left.
C27_SingleResponse ==
  (Finalized /\ ctx.wrote) =>
     /\ sink.status = ctxh.after1.status
     /\ ctx.status = ctxh.after1.status
     /\ OwnLines(sink.sent) = OwnLines(ctxh.after1.header)
     /\ Delivered = ctxh.after1.body

\* C28: with Recover as the outermost middleware a panic of the handler does
\* not leave ServeHTTP, and the request is answered 500 with the generic
\* body.
C28_RecoverAnswers500 ==
  /\ ~ctxh.propagated
  /\ ctxh.panicked =>
       /\ sink.status = StatusInternalServerError
       /\ Delivered = Encode(InternalServerError)


\* ------------------------------------------------------------------
\* Requests concurrent with configuration
\* ------------------------------------------------------------------

\* The policy values ServeHTTP reads between RLock and RUnlock.
Policy == <<RedirectTrailingSlash, ErrorHandler, notFound, methodNA, MaxBodySize, mw>>

\* C29: every routing policy value that ServeHTTP reads alongside the trie
\* lookup (trailing-slash flag, error hook, default not-found and
\* method-not-allowed handlers, body-size limit, global middleware list) is
\* written only under the router's write lock: no step changes one of them
\* while a request holds the read lock.
C29_PolicyWrittenUnderLock ==
  [][ Policy' # Policy => Readers = {} ]_vars

\* A request served by the ServeHTTP that takes its steps one at a time.
ServedInFlight == last.op = "serve" /\ "nmw" \in DOMAIN last

\* The middleware the served request ran, outermost first.
RanMw == LET tr == last.out.trace
         IN [i \in 1..((Len(tr) - 1) \div 2) |-> tr[i][1]]

\* C30: a request in flight while Use and registrations go on is served from
\* one snapshot: the global middleware it runs is the list as it stood at the
\* lookup, a prefix of the registration order that ends where a call of Use
\* ended, run in that order around the terminal handler; a resolved route
\* handler is one registered for the request's path when the lookup was made.
C30_ConsistentSnapshot ==
  (ServedInFlight /\ last.out.kind # "redirect") =>
     LET tr == last.out.trace
         n == last.nmw
     IN /\ n \in useEnds
        /\ n <= Len(mw)
        /\ RanMw = SubSeq(mw, 1, n)
        /\ Len(tr) = 2 * n + 1
        /\ tr = ExpectedTrace(SubSeq(mw, 1, n), tr[n + 1])
        /\ tr[n + 1][2] = "run"
        /\ last.out.kind = "handler" =>
             /\ last.out.handler \in 1..last.nroutes
             /\ routes[last.out.handler].parts = splitPath(last.req.path)
             /\ tr[n + 1][1] = "handler"

\* A request that ran the middleware of one whole Use call although a later
\* Use call and a later registration had happened before its chain ran.
C30_Witness ==
  /\ ServedInFlight
  /\ last.out.kind = "handler"
  /\ last.nmw = 2
  /\ Len(mw) = 3
  /\ last.nroutes < Len(routes)


\* ------------------------------------------------------------------
\* Lookup: normalization, greediness, trie shape
\* ------------------------------------------------------------------

\* Two paths that differ only in separators: the same segments in the same order.
SameSegments(p, q) ==
  SelectSeq(p, LAMBDA x : x # SEP) = SelectSeq(q, LAMBDA x : x # SEP)

\* What a dispatch decides: handler or error, status, handler identity, bindings.
Decision(o) == <<o.kind, o.status, o.handler, o.params, o.err>>

\* C31: with the trailing-slash redirect disabled, request paths that differ
\* only in repeated, leading or trailing separators are dispatched
\* identically: same handler or same error outcome, same parameter bindings.
C31_SeparatorsDoNotMatter ==
  (Served /\ ~RedirectTrailingSlash) =>
     \A r \in Requests :
        (r.method = last.req.method /\ SameSegments(URLPath(r.target), last.req.path)) =>
           Decision(ServeHTTP(nodes, mw, RedirectTrailingSlash, ErrorHandler, notFound,
                              methodNA,
                              [method |-> r.method, path |-> URLPath(r.target),
                               query |-> r.query]))
             = Decision(last.out)

\* The request //a//b dispatched to the handler of /a/b.
C31_Witness ==
  /\ Served
  /\ ~RedirectTrailingSlash
  /\ last.req.path = <<SEP, SEP, "a", SEP, SEP, "b">>
  /\ last.out.kind = "handler"
  /\ routes[last.out.handler].parts = <<"a", "b">>


\* The child of n that is neither parameter nor wildcard and carries seg, or
\* NIL; NIL when n is NIL.
LiteralChild(n, seg) ==
  IF n = NIL THEN NIL
  ELSE LET cs == {c \in {nodes[n].children[j] : j \in 1..Len(nodes[n].children)} :
                    nodes[c].segment = seg /\ ~nodes[c].param /\ ~nodes[c].wildcard}
       IN IF cs = {} THEN NIL ELSE CHOOSE c \in cs : TRUE

\* The node reached from the root by literal children alone over the first k
\* segments, or NIL.
RECURSIVE LiteralDescent(_, _)
LiteralDescent(parts, k) ==
  IF k = 0 THEN 1 ELSE LiteralChild(LiteralDescent(parts, k - 1), parts[k])

\* C32: lookup is greedy: where a literal child matches a request segment the
\* outcome is the one of walking the remaining segments in that child's
\* subtree alone; if that walk fails the request is answered not-found,
\* whatever a parameter or wildcard sibling of the literal would have matched.
C32_LiteralMatchIsFinal ==
  (Served /\ last.out.kind # "redirect") =>
     LET parts == ReqParts
     IN \A k \in 1..Len(parts) :
          LET c == LiteralDescent(parts, k)
              sub == findLoop(nodes, parts, k, c, <<>>)
          IN c # NIL =>
               /\ find(nodes, last.req.path).n = sub.n
               /\ sub.n = NIL => last.out.status = StatusNotFound


\* The children of node n.
ChildrenOf(n) == {nodes[n].children[j] : j \in 1..Len(nodes[n].children)}

\* C33: after any sequence of registrations, successful or failed, every trie
\* node has at most one parameter child and at most one wildcard child, and
\* no two children of a node carry the same segment text.
C33_TrieShape ==
  \A n \in 1..Len(nodes) :
     /\ Cardinality({c \in ChildrenOf(n) : nodes[c].param}) <= 1
     /\ Cardinality({c \in ChildrenOf(n) : nodes[c].wildcard}) <= 1
     /\ \A i, j \in 1..Len(nodes[n].children) :
           nodes[nodes[n].children[i]].segment = nodes[nodes[n].children[j]].segment => i = j

\* A node with a parameter child and a wildcard child, reached by two
\* registrations that share the node.
C33_Witness ==
  /\ Len(routes) = 2
  /\ \E n \in 1..Len(nodes) :
        /\ Cardinality(ChildrenOf(n)) = 2
        /\ \E c \in ChildrenOf(n) : nodes[c].param
        /\ \E c \in ChildrenOf(n) : nodes[c].wildcard


\* ------------------------------------------------------------------
\* What binds when
\* ------------------------------------------------------------------

\* C34: a request answered by the trailing-slash redirect never enters the
\* chain: no router-level middleware, no route handler and no error hook runs
\* for it.
C34_RedirectBypassesChain ==
  (Served /\ last.out.kind = "redirect") =>
     /\ last.out.trace = <<>>
     /\ last.out.handler = NIL
     /\ last.out.err = ""

\* A redirect answered while middleware, the error hook and the route of the
\* stripped path are all installed.
C34_Witness ==
  /\ Served
  /\ last.out.kind = "redirect"
  /\ Len(mw) >= 2
  /\ ErrorHandler
  /\ Len(routes) >= 1


\* The parameter names of a pattern: those of its :name segments, and "*"
\* for a wildcard segment.
NamesOf(parts) ==
  {StripColon(parts[i]) : i \in {j \in 1..Len(parts) : HasColonPrefix(parts[j])}}
    \cup (IF \E i \in 1..Len(parts) : parts[i] = "*" THEN {"*"} ELSE {})

\* C35: the parameter map a handler sees contains only names that occur in
\* the pattern of the route that was matched; a parameter or wildcard sibling
\* looked at during the lookup and not taken leaves no binding.
C35_OnlyNamesOfThePattern ==
  Dispatched => DOMAIN last.out.params \subseteq NamesOf(routes[last.out.handler].parts)


\* The orders in which the registered routes can be listed.
Orders ==
  {f \in [1..Len(routes) -> 1..Len(routes)] : \A i, j \in 1..Len(routes) : f[i] = f[j] => i = j}

\* The trie that registering the routes in the order f builds.
RECURSIVE TrieIn(_, _, _)
TrieIn(ns, f, k) ==
  IF k > Len(routes) THEN ns
  ELSE LET rt == routes[f[k]]
       IN TrieIn(handleWithPrefix(ns, "unlocked", <<>>, rt.method, <<SEP>> \o Join(rt.parts),
                                  rt.id, fullMW(rt.gmw, rt.own)).nodes,
                 f, k + 1)

\* No (method, pattern) was registered twice.
DistinctRoutes ==
  \A i, j \in 1..Len(routes) :
     (routes[i].method = routes[j].method /\ routes[i].parts = routes[j].parts) => i = j

\* C36: the dispatch outcome of a request (which handler, or 404 / 405, and
\* the parameter map) depends on the set of registered routes only:
\* registering the same routes in another order gives the same outcome.
C36_OrderOfRegistrationIrrelevant ==
  (Served /\ DistinctRoutes) =>
     \A f \in Orders :
        Decision(ServeHTTP(TrieIn(<<RootNode>>, f, 1), mw, RedirectTrailingSlash,
                           ErrorHandler, notFound, methodNA, last.req))
          = Decision(last.out)


\* ------------------------------------------------------------------
\* Expiry and the limit
\* ------------------------------------------------------------------

\* C37: bucket expiry never loosens the limit: in every execution, sweeps
\* included, the requests admitted for one key in a time interval of length T
\* are at most Burst + Rate * T.  Stated for the interval from the start to
\* the present instant, in units of 1/TokenScale token.
C37_ExpiryKeepsTheLimit ==
  \A k \in Keys :
     hist[k].admitted * TokenScale <= Burst * TokenScale + RatePerTick * clock


\* ------------------------------------------------------------------
\* The wrapper against the plain sink
\* ------------------------------------------------------------------

\* The status the client reads: net/http answers 200 when the handler returns
\* without a final status.
FinalStatus(s) == IF s.status = 0 THEN StatusOK ELSE s.status

\* C38: the gzip wrapper refines the plain sink: whatever WriteHeader and
\* Write calls the handler makes, the sink ends with the status it would have
\* had, and after decoding with the body it would have had, if the handler
\* had written to it directly.
C38_WrapperRefinesSink ==
  (Finalized /\ gzw.wrapped) =>
     /\ FinalStatus(sink) = FinalStatus(gzh.direct)
     /\ Delivered = gzh.direct.body


\* ------------------------------------------------------------------
\* The lock and the chain
\* ------------------------------------------------------------------

\* The requests whose middleware, handler or redirect write is under way.
InChain == {q \in Flights : inflight[q].pc = "unlocked"}

\* C39: ServeHTTP has released the router lock on every path before any
\* middleware, handler or redirect write runs: the lock is held only by
\* requests between RLock and RUnlock, so with requests in their chains, for
\* however long, the lock is free for Use, Handle, NotFound and
\* MethodNotAllowed and for the lookup of other requests.
C39_ChainRunsUnlocked ==
  /\ mu \in {"unlocked", "rlocked"}
  /\ mu = "rlocked" <=> Readers # {}
  /\ (InChain # {} /\ Readers = {}) => mu = "unlocked"

\* Two requests in their chains, one of them answered by the redirect, while
\* a Use call and a registration made since their lookups have gone through.
C39_Witness ==
  /\ InChain = Flights
  /\ \E q \in Flights : inflight[q].out.kind = "redirect"
  /\ \E q \in Flights : Len(inflight[q].mw) < Len(mw) /\ inflight[q].nroutes < Len(routes)
  /\ mu = "unlocked"


\* ------------------------------------------------------------------
\* Binding times of middleware
\* ------------------------------------------------------------------

\* The middleware a dispatched request ran before its handler, outermost first.
RanBefore ==
  LET tr == last.out.trace
  IN [i \in 1..((Len(tr) - 1) \div 2) |-> tr[i][1]]

\* C40: group and per-route middleware are bound when the route is
\* registered, router-level middleware when the request is served: a route
\* registered through a group runs all router-level middleware there is at
\* the request, whenever it was added, then the group's middleware as it
\* stood at the registration, and none the group was given afterwards, then
\* its own.
C40_BindingTimes ==
  Dispatched =>
     \A e \in GroupRegs :
        e.id = last.out.handler =>
           RanBefore = mw \o SubSeq(groups[e.g].mw, 1, e.ngmw) \o routes[e.id].own

\* A request to a group route registered before the last Router.Use and
\* before the last Group.Use of its group.
C40_Witness ==
  /\ Dispatched
  /\ \E e \in GroupRegs :
        /\ e.id = last.out.handler
        /\ e.nmw < Len(mw)
        /\ e.ngmw < Len(groups[e.g].mw)
        /\ e.ngmw >= 1

====
